---- MODULE Spec2Model ----
(***************************************************************************)
(* Reflex 1.9: the state -> subscription bridge                            *)
(* (control/state_subscription_bridge.py) and the Polygon WebSocket client *)
(* (polygon_api/websocket.py).                                             *)
(*                                                                         *)
(* Time is kept in integer milliseconds: time.time() is `now`, a chart     *)
(* timestamp is the value of `now` when the chart payload was applied.     *)
(***************************************************************************)
EXTENDS Integers, Sequences, FiniteSets, TLC

\* ------------------------------------------------------------------------
\* Universe and bounds
\* ------------------------------------------------------------------------
\* Tickers; Keys adds the empty string, which the DB-notify path can store as
\* a key; KeySorted is Keys in the order sorted() gives them.
Symbols == {"AAPL", "MSFT"}
Keys == Symbols \cup {""}
KeySorted == <<"", "AAPL", "MSFT">>

\* time.time() at start-up, in ms (the wall clock is far larger than the TTL)
StartMs == 100000
\* payloads (Redis messages and DB notifications) handled in one run of Spec
MaxPayloads == 1
\* Redis messages handled in one run of SpecDebounce
MaxBurst == 3
\* longest batch list in a payload
MaxBatch == 2
\* the fine clock of SpecDebounce advances by FineMs, up to StartMs + MaxFineElapsedMs
FineMs == 100
MaxFineElapsedMs == 450

\* ------------------------------------------------------------------------
\* Module constants of state_subscription_bridge.py
\* ------------------------------------------------------------------------
VALID_STATES == {"COLD", "WARM", "HOT"}
SRC_OVERRIDE == "override"
SRC_EVAL == "evaluator"
SRC_CHART == "chart"
SRC_DB == "db"
SOURCE_PRIORITY_chart_first == <<SRC_CHART, SRC_OVERRIDE, SRC_EVAL, SRC_DB>>
SOURCE_PRIORITY == <<SRC_OVERRIDE, SRC_EVAL, SRC_CHART, SRC_DB>>
Sources == {SRC_OVERRIDE, SRC_EVAL, SRC_CHART, SRC_DB}
CHART_TTL_SEC == 45
DEBOUNCE_MS == 150

\* dict.get(sym) returning None / a key that is not in the dict
None == "None"
StateOrNone == VALID_STATES \cup {None}
\* a symbol that has no key in self.chart_ts
NoTs == -1
trade_buffer_capacity == 200000

VARIABLES
    state_by_source, \* self.state_by_source: source -> (key -> state), None = no key
    chart_ts,        \* self.chart_ts: key -> ms timestamp, NoTs = no key
    eff_warm,        \* self.eff_warm
    eff_hot,         \* self.eff_hot
    push_evt,        \* self._push_evt
    metrics,         \* self.metrics (updates_in, db_notify_in, push_out, chart_expired)
    pusher_pc,       \* "init" before start(); then the pusher thread: "wait", "sleep", "recompute"
    sleep_until,     \* end of the pusher's time.sleep(DEBOUNCE_MS / 1000.0), 0 when not sleeping
    ctl_ticks,       \* the topic self.ctl_ticks: messages published (n) and the last one
    ctl_quotes,      \* the topic self.ctl_quotes: messages published (n) and the last one
    now,             \* time.time(), ms
    eff_query,       \* the last call of _effective_state_for: its argument and result
    pushed,          \* history: the last pair <<warm, hot>> published on both topics
    upd,             \* history: the last two payloads and the recomputes around them
    payloads_in,     \* history: payloads handled so far
    \* ---- PolygonWebSocketClient ----
    _subs,           \* self._subs: channel -> set of symbols
    _sendq,          \* self._sendq, head first
    _connected_evt,  \* self._connected_evt
    _connect_attempts, \* self._connect_attempts
    backoff,         \* the local `backoff` of the live runner thread
    runner_pc,       \* "none" before start(); the runner thread: "spawned", "loop",
                      \* "connecting", "open", "closed", "sleeping"
    sender_pc,       \* _sendq_pump: "get" (at self._sendq.get), "have" (holding a frame)
    sender_msg,      \* the frame _sendq_pump holds, NoFrame when none
    auth_events,     \* authentication-success events the upstream has sent, not yet read
    last_call,       \* history: the last subscription call and what it enqueued
    conn,            \* history: connections, closes and retries
    resub,           \* history: the last _resub_all
    enq_log,         \* history (SpecSend): the frames _enqueue accepted, in order
    wire,            \* history (SpecSend): the frames written to the socket, in order,
                     \* with an OpenMark where a connection opened
    overflow,        \* history (SpecSend): a frame met a full send queue
    \* ---- DoubleRingBuffer ----
    _maxlen,         \* self._maxlen: the capacity both deques were built with
    _active,         \* self._active, oldest first
    _drain,          \* self._drain, oldest first
    ring,            \* history: appends so far, what every drain returned, the last
                     \* drain and the last snapshot
    \* ---- _Registry ----
    _data,           \* registry._data: symbol -> record, a function over the keys present
    reg,             \* history: the symbols ever created and the last call
    \* ---- EventBus ----
    bus_subs,        \* EventBus._subs: topic -> list of callbacks
    _queue,          \* EventBus._queue: (topic, message) pairs, oldest first
    bus,             \* history: the last publish
    recent,          \* history: the last get_recent call
    \* ---- TradeProcess / QuoteProcess ----
    _q,              \* self._q, head first
    _dropped,        \* self._dropped
    _processed,      \* self._processed
    _stop_evt,       \* self._stop_evt
    h_pc,            \* the WS thread in _on_trade_event: "idle", "evict" (the first
                     \* put_nowait raised Full), "retry" (after get_nowait)
    h_ev,            \* the event the handler holds
    w_pc,            \* worker -> "check" (loop test), "get" (in self._q.get), "done"
    stop_left,       \* stop(): sentinels still to put, -1 before stop() is called
    ing,             \* history: events received, evicted, rejected, unparsable
    ctl_pc,          \* _control_loop: "listen" (inside ps.listen()), "done"
    ctl_inbox,       \* messages Redis holds for the control subscription, oldest first
    health_pc,       \* _health_loop: "check" (loop test), "write", "done"
    health,          \* the record last written to reflex:health:tick_proc
    \* ---- PolygonWebSocketClient: inbound frames ----
    _handlers,       \* self._handlers: tag -> handlers in registration order
    dispatch,        \* history: the last inbound frame and the handler calls it led to
    \* ---- PolygonWebSocketClient: start(), stop() and the runner threads ----
    thr,             \* runner thread -> its position in _run_forever, "none" = not created
    _runner,         \* self._runner (and self._wsapp, created with it), 0 = None
    ws_stop_evt,     \* the client's self._stop_evt
    stop_pc,         \* stop(): "idle", or "joining" the runner thread it found
    life,            \* history: calls of start() and stop()
    \* ---- the bridge, statement by statement: chart listener and expirer ----
    cl_pc,           \* the chart listener inside _apply_source_payload: where it is
                     \* and the item it holds
    ex_pc,           \* _chart_ttl_loop: where it is, its list `expired`, the entry in hand
    race,            \* history: the latest chart update of each symbol; whether the
                     \* expirer removed an entry updated within the TTL
    \* ---- EventBus, statement by statement ----
    _lock,           \* self._lock: "free", or the thread that holds it
    bus_pc           \* each thread that calls the bus: where it is, the call it
                     \* makes, the callback its publish() has reached

bridgeVars == <<state_by_source, chart_ts, eff_warm, eff_hot, push_evt, metrics,
                pusher_pc, sleep_until, ctl_ticks, ctl_quotes, now, eff_query, pushed>>
histVars == <<upd, payloads_in>>
wsVars == <<_subs, _sendq, _connected_evt, _connect_attempts, backoff, runner_pc,
            sender_pc, sender_msg, auth_events>>
wsHistVars == <<last_call, conn, resub>>
sendHistVars == <<enq_log, wire, overflow>>
clientVars == <<wsVars, wsHistVars, sendHistVars>>
ringVars == <<_maxlen, _active, _drain, ring>>
regVars == <<_data, reg>>
busVars == <<bus_subs, _queue, bus, recent>>
ingVars == <<_q, _dropped, _processed, _stop_evt, h_pc, h_ev, w_pc, stop_left, ing>>
loopVars == <<ctl_pc, ctl_inbox, health_pc, health>>
dispVars == <<_handlers, dispatch>>
lifeVars == <<thr, _runner, ws_stop_evt, stop_pc, life>>
raceVars == <<cl_pc, ex_pc, race>>
lockVars == <<_lock, bus_pc>>
memVars == <<ringVars, regVars, busVars, ingVars, loopVars, dispVars, lifeVars, raceVars,
             lockVars>>
offClient == <<bridgeVars, histVars, memVars>>
vars == <<bridgeVars, histVars, clientVars, memVars>>

\* ------------------------------------------------------------------------
\* Effective state (priority + chart TTL)
\* ------------------------------------------------------------------------
\* `now - ts > CHART_TTL_SEC`, with both sides in ms
ChartExpired_never(ts, t) == FALSE
ChartExpired(ts, t) == t - ts > CHART_TTL_SEC * 1000

\* ts.get(sym, 0.0) on a chart_ts dict
ChartTsGet(ts, sym) == IF ts[sym] = NoTs THEN 0 ELSE ts[sym]

\* the for-loop of _effective_state_for from position i of SOURCE_PRIORITY,
\* over the maps `maps`, the timestamps `ts` and the clock reading t
RECURSIVE EffectiveFrom(_, _, _, _, _)
EffectiveFrom(i, sym, t, maps, ts) ==
    IF i > Len(SOURCE_PRIORITY) THEN "COLD"
    ELSE LET src == SOURCE_PRIORITY[i]
             st == maps[src][sym]
         IN  IF st = None THEN EffectiveFrom(i + 1, sym, t, maps, ts)
             ELSE IF src = SRC_CHART /\ ChartExpired(ChartTsGet(ts, sym), t)
                  THEN EffectiveFrom(i + 1, sym, t, maps, ts)
                  ELSE st

_effective_state_for(sym) == EffectiveFrom(1, sym, now, state_by_source, chart_ts)

\* _compute_effective over given maps: <<warm, hot>>
ComputeEffectiveOf_overlapping(maps, ts, t) ==
    LET symbols == {k \in Keys : \E src \in Sources : maps[src][k] # None}
    IN  << {k \in symbols : EffectiveFrom(1, k, t, maps, ts) \in {"WARM", "HOT"}},
           {k \in symbols : EffectiveFrom(1, k, t, maps, ts) = "HOT"} >>
ComputeEffectiveOf(maps, ts, t) ==
    LET symbols == {k \in Keys : \E src \in Sources : maps[src][k] # None}
    IN  << {k \in symbols : EffectiveFrom(1, k, t, maps, ts) = "WARM"},
           {k \in symbols : EffectiveFrom(1, k, t, maps, ts) = "HOT"} >>

_compute_effective == ComputeEffectiveOf(state_by_source, chart_ts, now)

\* sorted(list(S))
Sorted(S) == SelectSeq(KeySorted, LAMBDA k : k \in S)

\* the JSON object _publish_control sends for one channel
ReplaceMsg(channel, S) == [op |-> "replace", channel |-> channel, symbols |-> Sorted(S)]

\* ------------------------------------------------------------------------
\* Construction
\* ------------------------------------------------------------------------
NoUpd == [at |-> -1, idle |-> FALSE, gap_short |-> FALSE, prev_idle |-> FALSE,
          rec_between |-> 0, rec_since |-> 0, pub_between |-> 0, pub_since |-> 0]

\* a topic nothing has been published on; self.pub.publish(topic, msg)
NoMsgs == [n |-> 0, last |-> None]
Publish(topic, msg) == [n |-> topic.n + 1, last |-> msg]

\* the fields __init__ sets apart from the maps and the clock
BridgeIdle ==
    /\ eff_warm = {}
    /\ eff_hot = {}
    /\ push_evt = FALSE
    /\ metrics = [updates_in |-> 0, db_notify_in |-> 0, push_out |-> 0, chart_expired |-> 0]
    /\ pusher_pc = "init"
    /\ sleep_until = 0
    /\ ctl_ticks = NoMsgs
    /\ ctl_quotes = NoMsgs
    /\ pushed = <<{}, {}>>
    /\ upd = NoUpd
    /\ payloads_in = 0


\* ------------------------------------------------------------------------
\* PolygonWebSocketClient: construction
\* ------------------------------------------------------------------------
\* the keys of self._subs, in the dict's insertion order
Channels == {"T", "Q", "A"}
ChannelOrder == <<"T", "Q", "A">>
\* the constructor's max_backoff default
max_backoff == 60
\* the constructor's max_send_queue (maxsize of self._sendq)
max_send_queue == 2
\* subscription calls in one run of SpecCalls
MaxCalls == 3
\* subscription calls and connection attempts in one run of SpecWS
MaxWsCalls == 1
MaxConnects == 2

NoFrame == [action |-> "none", params |-> <<>>]

NoCall == [n |-> 0, op |-> "none", channel |-> "none", target |-> {}, before |-> {},
           due |-> 0, took |-> 0, repeat |-> FALSE, first_diff |-> FALSE,
           raised |-> FALSE]
NoConn == [n |-> 0, authed |-> FALSE, streak |-> 0, last_delay |-> 0,
           had_disconnect |-> FALSE, subs_at_close |-> [ch \in Channels |-> {}],
           calls_since_close |-> FALSE]
NoResub == [n |-> 0, due |-> 0, took |-> 0, reconnect |-> FALSE]

\* the client as __init__ leaves it
WsIdle ==
    /\ _subs = [ch \in Channels |-> {}]
    /\ _sendq = <<>>
    /\ _connected_evt = FALSE
    /\ _connect_attempts = 0
    /\ backoff = 0
    /\ runner_pc = "none"
    /\ sender_pc = "get"
    /\ sender_msg = NoFrame
    /\ auth_events = 0
    /\ last_call = NoCall
    /\ conn = NoConn
    /\ resub = NoResub
    /\ enq_log = <<>>
    /\ wire = <<>>
    /\ overflow = FALSE

\* a buffer nothing was drained from or snapshotted
NoPut == [item |-> 0, before |-> <<>>, after |-> <<>>]
NoDrain == [n |-> 0, items |-> <<>>, swap |-> <<>>, active_after |-> <<>>,
            drain_after |-> <<>>, since |-> 0]
NoSnap == [taken |-> FALSE, n |-> 0, items |-> <<>>, before |-> <<>>, after |-> <<>>]
NoRing == [appended |-> 0, mark |-> 0, evicted |-> {}, drained |-> <<>>, put |-> NoPut,
           last |-> NoDrain, snap |-> NoSnap]

\* DoubleRingBuffer(capacity) as __init__ leaves it
RingIdle(capacity) ==
    /\ _maxlen = capacity
    /\ _active = <<>>
    /\ _drain = <<>>
    /\ ring = NoRing

\* _Registry() as __init__ leaves it
NoRegCall == [op |-> "none", symbol |-> "", quote |-> <<>>, present |-> FALSE,
              before |-> <<>>, after |-> <<>>, others |-> TRUE]
RegIdle ==
    /\ _data = <<>>
    /\ reg = [created |-> {}, calls |-> 0, last |-> NoRegCall]

\* EventBus() as __init__ leaves it
Topics == {"control", "signals"}
NoPublish == [n |-> 0, topic |-> "", message |-> "", subs |-> <<>>, called |-> <<>>,
              threw |-> FALSE, appended |-> FALSE, propagated |-> FALSE]
NoRecent == [taken |-> FALSE, limit |-> 0, items |-> <<>>, of |-> <<>>, after |-> <<>>]
BusIdle ==
    /\ bus_subs = [t \in Topics |-> <<>>]
    /\ _queue = <<>>
    /\ bus = NoPublish
    /\ recent = NoRecent

\* TradeProcess() as __init__ leaves it, its worker threads at the loop test
max_queue == 2
_workers == 2
Workers == 1 .. _workers
NoEvent == [id |-> 0, kind |-> "none"]
NoEnqueue == [id |-> 0, full |-> FALSE, done |-> FALSE, at_evict |-> <<>>, removed |-> <<>>,
              still_full |-> FALSE, inserted |-> FALSE, counted |-> FALSE]
IngIdle ==
    /\ _q = <<>>
    /\ _dropped = 0
    /\ _processed = 0
    /\ _stop_evt = FALSE
    /\ h_pc = "idle"
    /\ h_ev = NoEvent
    /\ w_pc = [w \in Workers |-> "check"]
    /\ stop_left = -1
    /\ ing = [received |-> 0, no_sym |-> 0, evicted |-> 0, rejected |-> 0, unparsable |-> 0,
              last |-> NoEnqueue, published |-> <<>>]

\* the control listener subscribed and the health publisher at its loop test,
\* as start() leaves them; no health record written yet
NoHealth == [written |-> FALSE, processed |-> 0, dropped |-> 0, qsize |-> 0]
LoopIdle ==
    /\ ctl_pc = "listen"
    /\ ctl_inbox = <<>>
    /\ health_pc = "check"
    /\ health = NoHealth

\* no handler registered, no frame received
EventTags == {"T", "Q", "*"}
NoDispatch == [n |-> 0, frame |-> <<>>, log |-> <<>>, raised |-> FALSE]
DispatchIdle ==
    /\ _handlers = [tag \in EventTags |-> <<>>]
    /\ dispatch = NoDispatch

\* the client before start(): no runner thread, the stop flag clear
MaxRunners == 3
Runners == 1 .. MaxRunners
NoThread == [pc |-> "none", late |-> FALSE]
LifeIdle ==
    /\ thr = [r \in Runners |-> NoThread]
    /\ _runner = 0
    /\ ws_stop_evt = FALSE
    /\ stop_pc = [at |-> "idle", joined |-> 0]
    /\ life = [starts |-> 0, stops |-> 0]

\* the chart listener between two messages, the expirer about to scan
RaceIdle ==
    /\ cl_pc = [at |-> "idle", sym |-> "", st |-> None]
    /\ ex_pc = [at |-> "scan", expired |-> {}, cur |-> "", n |-> 0]
    /\ race = [last_upd |-> [k \in Keys |-> NoTs], removed_fresh |-> FALSE]

\* the bus lock free, no thread inside a call of the bus
BusThreads == {"main", "feed"}
NoBusCall == [at |-> "idle", op |-> "", topic |-> "", arg |-> "", i |-> 0, inner |-> FALSE]
LockIdle ==
    /\ _lock = "free"
    /\ bus_pc = [t \in BusThreads |-> NoBusCall]

\* the shared-memory objects and the bus as the module imports leave them
MemIdle ==
    /\ IngIdle
    /\ LoopIdle
    /\ DispatchIdle
    /\ LifeIdle
    /\ RaceIdle
    /\ LockIdle
    /\ RingIdle(trade_buffer_capacity)
    /\ RegIdle
    /\ BusIdle

\* ------------------------------------------------------------------------
\* SpecEff: _effective_state_for over every content of the four maps
\* ------------------------------------------------------------------------
NoQuery == [sym |-> None, st |-> None]

\* chart timestamps around the TTL boundary: none, exactly TTL old, 1 ms older
ChartTsChoices == {NoTs, StartMs - CHART_TTL_SEC * 1000, StartMs - CHART_TTL_SEC * 1000 - 1}

\* a map over the tickers as a dict over Keys (no "" key)
OnTickers(f) == [k \in Keys |-> IF k \in Symbols THEN f[k] ELSE None]
TsOnTickers(f) == [k \in Keys |-> IF k \in Symbols THEN f[k] ELSE NoTs]

InitEff ==
    /\ \E m \in [Sources -> [Symbols -> StateOrNone]] :
           state_by_source = [src \in Sources |-> OnTickers(m[src])]
    /\ \E t \in [Symbols -> ChartTsChoices] : chart_ts = TsOnTickers(t)
    /\ now = StartMs
    /\ eff_query = NoQuery
    /\ BridgeIdle
    /\ WsIdle
    /\ MemIdle

EffectiveStateQuery(sym) ==
    /\ eff_query' = [sym |-> sym, st |-> _effective_state_for(sym)]
    /\ UNCHANGED <<state_by_source, chart_ts, eff_warm, eff_hot, push_evt, metrics,
                   pusher_pc, sleep_until, ctl_ticks, ctl_quotes, now, pushed, histVars,
                   clientVars, memVars>>

NextEff == \E sym \in Symbols : EffectiveStateQuery(sym)

SpecEff == InitEff /\ [][NextEff]_vars

\* the chart entry of sym counts: present and not older than the TTL
ChartCounts(sym) ==
    /\ state_by_source[SRC_CHART][sym] # None
    /\ now - ChartTsGet(chart_ts, sym) <= CHART_TTL_SEC * 1000

\* first_present(override, evaluator, chart, db)(sym), else COLD
FirstPresent(sym) ==
    IF state_by_source[SRC_OVERRIDE][sym] # None THEN state_by_source[SRC_OVERRIDE][sym]
    ELSE IF state_by_source[SRC_EVAL][sym] # None THEN state_by_source[SRC_EVAL][sym]
    ELSE IF state_by_source[SRC_CHART][sym] # None THEN state_by_source[SRC_CHART][sym]
    ELSE IF state_by_source[SRC_DB][sym] # None THEN state_by_source[SRC_DB][sym]
    ELSE "COLD"

\* what override, evaluator and db give, chart left out
FirstPresentNoChart(sym) ==
    IF state_by_source[SRC_OVERRIDE][sym] # None THEN state_by_source[SRC_OVERRIDE][sym]
    ELSE IF state_by_source[SRC_EVAL][sym] # None THEN state_by_source[SRC_EVAL][sym]
    ELSE IF state_by_source[SRC_DB][sym] # None THEN state_by_source[SRC_DB][sym]
    ELSE "COLD"

\* C1: when the chart timestamp of S is within TTL (or chart does not hold S),
\* _effective_state_for(S) returns the state of the first source in the order
\* override > evaluator > chart > db that contains S, and COLD when none does.
C1_BridgePriority ==
    (eff_query.sym # None /\
     (state_by_source[SRC_CHART][eff_query.sym] # None => ChartCounts(eff_query.sym)))
        => eff_query.st = FirstPresent(eff_query.sym)

\* a fresh chart entry decides the result: it outranks a db entry that asserts
\* another state and neither override nor evaluator holds the symbol
C1_Witness ==
    /\ eff_query.sym # None
    /\ ChartCounts(eff_query.sym)
    /\ state_by_source[SRC_OVERRIDE][eff_query.sym] = None
    /\ state_by_source[SRC_EVAL][eff_query.sym] = None
    /\ state_by_source[SRC_DB][eff_query.sym] = "WARM"
    /\ state_by_source[SRC_CHART][eff_query.sym] = "HOT"
    /\ eff_query.st = "HOT"

\* C2: when now - chart_ts[S] > TTL the chart entry of S is treated as absent:
\* the effective state is what override, evaluator and db give, COLD when none
\* of them holds S, although the chart map still holds S.
C2_ChartTtlInResolution ==
    (eff_query.sym # None /\ state_by_source[SRC_CHART][eff_query.sym] # None
        /\ now - ChartTsGet(chart_ts, eff_query.sym) > CHART_TTL_SEC * 1000)
        => eff_query.st = FirstPresentNoChart(eff_query.sym)

\* a stale chart HOT entry that the expirer has not removed, no other source
C2_Witness ==
    /\ eff_query.sym # None
    /\ state_by_source[SRC_CHART][eff_query.sym] = "HOT"
    /\ chart_ts[eff_query.sym] # NoTs
    /\ now - chart_ts[eff_query.sym] > CHART_TTL_SEC * 1000
    /\ state_by_source[SRC_OVERRIDE][eff_query.sym] = None
    /\ state_by_source[SRC_EVAL][eff_query.sym] = None
    /\ state_by_source[SRC_DB][eff_query.sym] = None
    /\ eff_query.st = "COLD"

\* ------------------------------------------------------------------------
\* The bridge: start(), the source listeners, the pusher, the chart expirer
\* ------------------------------------------------------------------------
\* an element of a batch list that is not a JSON object (it.get / it["symbol"] raises)
NotDict == [symbol |-> "<notdict>", state |-> "<notdict>"]
\* a JSON object item; symbol "" also stands for a missing "symbol" key
DictItems == [symbol : Keys, state : VALID_STATES \cup {"BOGUS"}]
Items == DictItems \cup {NotDict}
Batches == UNION {[1..n -> Items] : n \in 0..MaxBatch}
\* {symbol, state} | {batch: [...]} | a JSON object with neither
Payloads ==
    {[form |-> "single", items |-> <<it>>] : it \in DictItems}
        \cup {[form |-> "batch", items |-> b] : b \in Batches}
        \cup {[form |-> "other", items |-> <<>>]}

RedisSources == {SRC_EVAL, SRC_OVERRIDE, SRC_CHART}

\* history: a payload that wrote a source map arrives
UpdArrive ==
    [at |-> now,
     idle |-> (pusher_pc = "wait" /\ ~push_evt),
     gap_short |-> (upd.at >= 0 /\ now - upd.at < DEBOUNCE_MS),
     prev_idle |-> upd.idle,
     rec_between |-> upd.rec_since, rec_since |-> 0,
     pub_between |-> upd.pub_since, pub_since |-> 0]

\* history: the pusher has run one recompute, which published npairs pairs
UpdRecompute(npairs) ==
    [upd EXCEPT !.rec_since = @ + 1, !.pub_since = @ + npairs]

\* _publish_control(hot, warm | hot) inside _recompute_and_push; outcome is
\* "ok", "ticks_raises" (the first publish raises) or "quotes_raises"
\* (the second one does). m is the metrics dict the call starts from.
_recompute_and_push(pair, outcome, m) ==
    IF pair[1] # eff_warm \/ pair[2] # eff_hot
    THEN /\ eff_warm' = pair[1]
         /\ eff_hot' = pair[2]
         /\ ctl_ticks' = IF outcome = "ticks_raises" THEN ctl_ticks
                         ELSE Publish(ctl_ticks, ReplaceMsg("T", pair[2]))
         /\ ctl_quotes' = IF outcome = "ok"
                          THEN Publish(ctl_quotes, ReplaceMsg("Q", pair[1] \cup pair[2]))
                          ELSE ctl_quotes
         /\ metrics' = IF outcome = "ok" THEN [m EXCEPT !.push_out = @ + 1] ELSE m
         /\ pushed' = IF outcome = "ok" THEN pair ELSE pushed
    ELSE /\ outcome = "ok"
         /\ metrics' = m
         /\ UNCHANGED <<eff_warm, eff_hot, ctl_ticks, ctl_quotes, pushed>>

PublishOutcomes == {"ok", "ticks_raises", "quotes_raises"}

\* the threads of the bridge are running
Running == pusher_pc \notin {"init", "exit"}

\* start(): _bootstrap_from_db (rows of the WARM/HOT query), the bootstrap
\* _recompute_and_push, then the threads are started. A publish that raises
\* here is not caught: start() raises before any thread exists.
Start(rows, outcome) ==
    /\ pusher_pc = "init"
    /\ LET maps == [state_by_source EXCEPT ![SRC_DB] = OnTickers(rows)]
       IN  /\ state_by_source' = maps
           /\ _recompute_and_push(ComputeEffectiveOf(maps, chart_ts, now), outcome, metrics)
    /\ pusher_pc' = IF outcome = "ok" THEN "wait" ELSE "exit"
    /\ UNCHANGED <<chart_ts, push_evt, sleep_until, now, eff_query>>

\* the loop over items in _apply_source_payload, from item i on
RECURSIVE ApplyItems(_, _, _, _)
ApplyItems(source, items, i, acc) ==
    IF i > Len(items) THEN acc
    ELSE LET it == items[i]
         IN  IF it = NotDict THEN [acc EXCEPT !.raised = TRUE]
             ELSE IF it.symbol = "" \/ it.state \notin VALID_STATES
                  THEN ApplyItems(source, items, i + 1, acc)
                  ELSE ApplyItems(source, items, i + 1,
                         [maps |-> [acc.maps EXCEPT ![source][it.symbol] = it.state],
                          ts |-> IF source = SRC_CHART
                                 THEN [acc.ts EXCEPT ![it.symbol] = now] ELSE acc.ts,
                          changed |-> TRUE, raised |-> FALSE])

\* one message of _redis_in_loop: _apply_source_payload, then updates_in += 1
\* unless the payload raised
ApplySourcePayload(source, payload) ==
    /\ Running
    /\ LET r == ApplyItems(source, payload.items, 1,
                    [maps |-> state_by_source, ts |-> chart_ts,
                     changed |-> FALSE, raised |-> FALSE])
       IN  /\ state_by_source' = r.maps
           /\ chart_ts' = r.ts
           /\ push_evt' = IF r.changed /\ ~r.raised THEN TRUE ELSE push_evt
           /\ metrics' = IF r.raised THEN metrics
                         ELSE [metrics EXCEPT !.updates_in = @ + 1]
    /\ UNCHANGED <<eff_warm, eff_hot, pusher_pc, sleep_until, ctl_ticks, ctl_quotes,
                   now, eff_query, pushed>>

\* the loop over items in _apply_db_notification, from item i on
RECURSIVE ApplyDbItems(_, _, _)
ApplyDbItems(items, i, acc) ==
    IF i > Len(items) THEN acc
    ELSE LET it == items[i]
         IN  IF it = NotDict THEN [acc EXCEPT !.raised = TRUE]
             ELSE IF it.state \notin VALID_STATES
                  THEN ApplyDbItems(items, i + 1, acc)
                  ELSE ApplyDbItems(items, i + 1,
                         [maps |-> [acc.maps EXCEPT ![SRC_DB][it.symbol] = it.state],
                          ts |-> acc.ts, changed |-> TRUE, raised |-> FALSE])

\* one JSON notification of _db_notify_loop; when an item raises, the except
\* branch looks the whole payload text up as a symbol and finds no row
ApplyDbNotification(payload) ==
    /\ Running
    /\ LET r == ApplyDbItems(payload.items, 1,
                    [maps |-> state_by_source, ts |-> chart_ts,
                     changed |-> FALSE, raised |-> FALSE])
       IN  /\ state_by_source' = r.maps
           /\ push_evt' = IF payload.form # "other" /\ ~r.raised THEN TRUE ELSE push_evt
    /\ metrics' = [metrics EXCEPT !.db_notify_in = @ + 1]
    /\ UNCHANGED <<chart_ts, eff_warm, eff_hot, pusher_pc, sleep_until, ctl_ticks,
                   ctl_quotes, now, eff_query, pushed>>

\* a notification that is a bare symbol: json.loads raises, the except branch
\* queries the table; row is the state column of the row found, None = no row
ApplyDbBareSymbol(sym, row) ==
    /\ Running
    /\ IF row \in VALID_STATES
       THEN /\ state_by_source' = [state_by_source EXCEPT ![SRC_DB][sym] = row]
            /\ push_evt' = TRUE
       ELSE UNCHANGED <<state_by_source, push_evt>>
    /\ metrics' = [metrics EXCEPT !.db_notify_in = @ + 1]
    /\ UNCHANGED <<chart_ts, eff_warm, eff_hot, pusher_pc, sleep_until, ctl_ticks,
                   ctl_quotes, now, eff_query, pushed>>

\* _pusher_loop: self._push_evt.wait(timeout=0.25) returns True
PusherWake ==
    /\ pusher_pc = "wait"
    /\ push_evt
    /\ pusher_pc' = "sleep"
    /\ sleep_until' = now + DEBOUNCE_MS
    /\ UNCHANGED <<state_by_source, chart_ts, eff_warm, eff_hot, push_evt, metrics,
                   ctl_ticks, ctl_quotes, now, eff_query, pushed>>

\* time.sleep(DEBOUNCE_MS / 1000.0) has returned at clock reading t
SleepDone_at_once(t) == TRUE
SleepDone(t) == t >= sleep_until

\* _pusher_loop: the sleep is over; self._push_evt.clear()
PusherClear ==
    /\ pusher_pc = "sleep"
    /\ SleepDone(now)
    /\ push_evt' = FALSE
    /\ pusher_pc' = "recompute"
    /\ sleep_until' = 0
    /\ UNCHANGED <<state_by_source, chart_ts, eff_warm, eff_hot, metrics,
                   ctl_ticks, ctl_quotes, now, eff_query, pushed>>

\* _pusher_loop: _recompute_and_push(reason="debounced-update") inside try/except
PusherRecompute(outcome) ==
    /\ pusher_pc = "recompute"
    /\ _recompute_and_push(_compute_effective, outcome, metrics)
    /\ pusher_pc' = "wait"
    /\ UNCHANGED <<state_by_source, chart_ts, push_evt, sleep_until, now, eff_query>>

\* one iteration of _chart_ttl_loop that finds expired entries
ChartTtlLoop ==
    /\ Running
    /\ LET expired == {k \in Keys : chart_ts[k] # NoTs
                                    /\ now - chart_ts[k] > CHART_TTL_SEC * 1000}
       IN  /\ expired # {}
           /\ chart_ts' = [k \in Keys |-> IF k \in expired THEN NoTs ELSE chart_ts[k]]
           /\ state_by_source' = [state_by_source EXCEPT ![SRC_CHART] =
                  [k \in Keys |-> IF k \in expired THEN None ELSE @[k]]]
           /\ metrics' = [metrics EXCEPT !.chart_expired = @ + Cardinality(expired)]
    /\ push_evt' = TRUE
    /\ UNCHANGED <<eff_warm, eff_hot, pusher_pc, sleep_until, ctl_ticks, ctl_quotes,
                   now, eff_query, pushed>>

\* the clock advances by d ms, not beyond StartMs + limit
Tick(d, limit) ==
    /\ Running
    /\ now + d <= StartMs + limit
    /\ now' = now + d
    /\ UNCHANGED <<state_by_source, chart_ts, eff_warm, eff_hot, push_evt, metrics,
                   pusher_pc, sleep_until, ctl_ticks, ctl_quotes, eff_query, pushed>>

\* the clock reaches the end of the pusher's sleep
SleepTick ==
    /\ pusher_pc = "sleep"
    /\ now < sleep_until
    /\ now' = sleep_until
    /\ UNCHANGED <<state_by_source, chart_ts, eff_warm, eff_hot, push_evt, metrics,
                   pusher_pc, sleep_until, ctl_ticks, ctl_quotes, eff_query, pushed>>

Init ==
    /\ state_by_source = [src \in Sources |-> [k \in Keys |-> None]]
    /\ chart_ts = [k \in Keys |-> NoTs]
    /\ now = StartMs
    /\ eff_query = NoQuery
    /\ BridgeIdle
    /\ WsIdle
    /\ MemIdle

\* results of the bootstrap query: no row, or (AAPL, HOT), (MSFT, WARM)
BootRows == {[s \in Symbols |-> None],
             [s \in Symbols |-> IF s = "AAPL" THEN "HOT" ELSE "WARM"]}

\* the bridge with its listener threads and its pusher; a payload arrives on a
\* Redis source channel or as a DB notification
Next ==
    \/ \E rows \in BootRows, outcome \in PublishOutcomes :
          Start(rows, outcome) /\ UNCHANGED <<histVars, clientVars, memVars>>
    \/ \E sym \in Symbols, row \in StateOrNone \cup {"BOGUS"} :
          /\ payloads_in < MaxPayloads
          /\ ApplyDbBareSymbol(sym, row)
          /\ payloads_in' = payloads_in + 1
          /\ UNCHANGED <<upd, clientVars, memVars>>
    \/ \E source \in RedisSources, payload \in Payloads :
          /\ payloads_in < MaxPayloads
          /\ ApplySourcePayload(source, payload)
          /\ payloads_in' = payloads_in + 1
          /\ UNCHANGED <<upd, clientVars, memVars>>
    \/ \E payload \in Payloads :
          /\ payloads_in < MaxPayloads
          /\ ApplyDbNotification(payload)
          /\ payloads_in' = payloads_in + 1
          /\ UNCHANGED <<upd, clientVars, memVars>>
    \/ PusherWake /\ UNCHANGED <<histVars, clientVars, memVars>>
    \/ PusherClear /\ UNCHANGED <<histVars, clientVars, memVars>>
    \/ \E outcome \in PublishOutcomes :
          PusherRecompute(outcome) /\ UNCHANGED <<histVars, clientVars, memVars>>
    \/ SleepTick /\ UNCHANGED <<histVars, clientVars, memVars>>

Spec == Init /\ [][Next]_vars

\* ------------------------------------------------------------------------
\* Push content and quiescence
\* ------------------------------------------------------------------------
\* the pusher thread completes one _recompute_and_push
RecomputeStep == pusher_pc = "recompute" /\ pusher_pc' = "wait"

\* C3: whenever a recompute finds the computed (eff_warm, eff_hot) different
\* from the last pushed pair, exactly two control messages are published,
\* {op: replace, channel: T, symbols: sorted(eff_hot)} on the ticks topic and
\* {op: replace, channel: Q, symbols: sorted(eff_warm \cup eff_hot)} on the
\* quotes topic; when the pair is unchanged nothing is published; two
\* consecutive pushes never carry the same pair.
C3_PushContent ==
    [][RecomputeStep =>
        LET pair == _compute_effective
        IN  IF pair # pushed
            THEN /\ ctl_ticks' = [n |-> ctl_ticks.n + 1,
                                  last |-> [op |-> "replace", channel |-> "T",
                                            symbols |-> Sorted(pair[2])]]
                 /\ ctl_quotes' = [n |-> ctl_quotes.n + 1,
                                   last |-> [op |-> "replace", channel |-> "Q",
                                             symbols |-> Sorted(pair[1] \cup pair[2])]]
                 /\ pushed' = pair
            ELSE UNCHANGED <<ctl_ticks, ctl_quotes, pushed>>]_vars

\* no chart entry is older than the TTL: the expirer has nothing to remove
NothingToExpire ==
    \A k \in Keys : chart_ts[k] = NoTs \/ now - chart_ts[k] <= CHART_TTL_SEC * 1000

\* the pusher is idle with the dirty flag clear: every source update so far
\* has been followed by a full debounce + recompute cycle
Quiescent == pusher_pc = "wait" /\ ~push_evt /\ NothingToExpire

\* C4: once the sources are quiet and the pusher has consumed the dirty flag,
\* the last published pair of subscription sets equals the sets computed from
\* the current four source maps and the current time; no update is lost.
C4_Quiescence == Quiescent => pushed = _compute_effective

\* C37: if publishing either control message fails with an exception, the
\* bridge's last-pushed (eff_warm, eff_hot) is not advanced: the pair the
\* bridge records as pushed is, while the pusher runs, always the pair last
\* published on both control topics.
C37_PushFailureKeepsState == Running => <<eff_warm, eff_hot>> = pushed

\* the symbols a control message lists
Listed(msg) == {msg.symbols[i] : i \in DOMAIN msg.symbols}

\* one _publish_control has published its two messages
PairPublished == ctl_ticks'.n > ctl_ticks.n /\ ctl_quotes'.n > ctl_quotes.n

\* C40: in every reachable state of the bridge eff_warm and eff_hot are
\* disjoint, and in every pair of control messages it publishes the symbols
\* of the T message are among the symbols of the Q message.
C40_TradesSubsetOfQuotes ==
    /\ [](eff_warm \cap eff_hot = {})
    /\ [][PairPublished => Listed(ctl_ticks'.last) \subseteq Listed(ctl_quotes'.last)]_vars

\* a pair was published while one symbol is WARM and another HOT
C40_Witness ==
    /\ ctl_ticks.n > 0 /\ ctl_quotes.n > 0
    /\ pushed = <<eff_warm, eff_hot>>
    /\ eff_warm # {} /\ eff_hot # {}
    /\ Listed(ctl_ticks.last) = eff_hot
    /\ Listed(ctl_quotes.last) = eff_warm \cup eff_hot

\* ------------------------------------------------------------------------
\* SpecDebounce: a burst of source updates against the pusher's cycle,
\* on a clock of FineMs steps
\* ------------------------------------------------------------------------
\* a well-formed {symbol, state} message on the evaluator channel
BurstInputs ==
    \E it \in [symbol : Symbols, state : VALID_STATES] :
        ApplySourcePayload(SRC_EVAL, [form |-> "single", items |-> <<it>>])

NextDebounce ==
    \/ \E rows \in BootRows, outcome \in PublishOutcomes :
          Start(rows, outcome) /\ UNCHANGED <<histVars, clientVars, memVars>>
    \/ /\ payloads_in < MaxBurst
       /\ BurstInputs
       /\ payloads_in' = payloads_in + 1
       /\ upd' = UpdArrive
       /\ UNCHANGED <<clientVars, memVars>>
    \/ PusherWake /\ UNCHANGED <<histVars, clientVars, memVars>>
    \/ PusherClear /\ UNCHANGED <<histVars, clientVars, memVars>>
    \/ \E outcome \in PublishOutcomes :
          /\ PusherRecompute(outcome)
          /\ upd' = UpdRecompute(IF ctl_ticks'.n > ctl_ticks.n THEN 1 ELSE 0)
          /\ UNCHANGED <<payloads_in, clientVars, memVars>>
    \/ Tick(FineMs, MaxFineElapsedMs) /\ UNCHANGED <<histVars, clientVars, memVars>>

SpecDebounce == Init /\ [][NextDebounce]_vars

\* C5 as stated: for any two source updates less than the debounce interval
\* apart, whenever they arrive relative to the pusher's wait/sleep cycle, the
\* pusher performs at most one recompute and publishes at most one pair of
\* control messages for them.
C5_Debounce ==
    upd.gap_short =>
        /\ upd.rec_between + upd.rec_since <= 1
        /\ upd.pub_between + upd.pub_since <= 1

\* C5 amended: when the first of two source updates less than the debounce
\* interval apart arrives while the pusher is idle (waiting, push event
\* clear), no recompute runs between them, at most one recompute and one pair
\* of control messages follow them, and what is published is computed from
\* the maps as the second update left them.
C5_DebounceFromIdle ==
    (upd.gap_short /\ upd.prev_idle) =>
        /\ upd.rec_between = 0 /\ upd.pub_between = 0
        /\ upd.rec_since <= 1 /\ upd.pub_since <= 1
        /\ upd.rec_since = 1 => <<eff_warm, eff_hot>> = _compute_effective
        /\ upd.pub_since = 1 =>
               ctl_ticks.last = [op |-> "replace", channel |-> "T",
                                 symbols |-> Sorted(_compute_effective[2])]

\* two updates within the debounce interval, the first at an idle pusher,
\* followed by the one recompute, which published
C5_Witness ==
    /\ upd.gap_short /\ upd.prev_idle
    /\ upd.at > StartMs
    /\ upd.rec_since = 1 /\ upd.pub_since = 1
    /\ pusher_pc = "wait"


\* ------------------------------------------------------------------------
\* PolygonWebSocketClient: frames and the send queue
\* ------------------------------------------------------------------------
\* what the callers pass: symbols already upper-case, "" for a blank entry
SymInputs == Symbols \cup {""}
SymLists == {<<>>} \cup {<<a>> : a \in SymInputs} \cup {<<a, b>> : a, b \in Symbols}
\* the lists the caller of SpecWS passes
WsSymLists == {<<"AAPL">>, <<"AAPL", "MSFT">>}
CallChannels == {"T", "Q"}

\* params is "T.AAPL,T.MSFT" in the code: the list of <<channel, symbol>>
_make_sub_msg(symbols, channel) ==
    [action |-> "subscribe",
     params |-> [i \in 1..Len(symbols) |-> <<channel, symbols[i]>>]]

_make_unsub_msg(symbols, channel) ==
    [action |-> "unsubscribe",
     params |-> [i \in 1..Len(symbols) |-> <<channel, symbols[i]>>]]

AuthFrame == [action |-> "auth", params |-> <<>>]

\* put_nowait: appended when there is room, dropped (logged) on queue.Full
_enqueue(q, payload) == IF Len(q) < max_send_queue THEN Append(q, payload) ELSE q

\* the queue after _enqueue of each frame in turn, and the frames that got in
RECURSIVE EnqueueAll(_, _, _, _)
EnqueueAll(q, frames, i, enq) ==
    IF i > Len(frames) THEN [q |-> q, enq |-> enq]
    ELSE EnqueueAll(_enqueue(q, frames[i]), frames, i + 1,
                    IF Len(q) < max_send_queue THEN Append(enq, frames[i]) ELSE enq)

\* [s for s in symbols if s and s.strip()]
NonBlank(symbols) == SelectSeq(symbols, LAMBDA s : s # "")
Elems(seq) == {seq[i] : i \in DOMAIN seq}
Repeats(seq, j) == \E h \in DOMAIN seq : h < j /\ seq[h] = seq[j]
HasDuplicate(seq) == \E j \in DOMAIN seq : Repeats(seq, j)
\* the index of the first element that occurred earlier in the list
FirstRepeat(seq) ==
    CHOOSE j \in DOMAIN seq : Repeats(seq, j) /\ \A g \in DOMAIN seq : g < j => ~Repeats(seq, g)

Call(op, channel, target, frames, r, raised) ==
    [n |-> last_call.n + 1, op |-> op, channel |-> channel, target |-> target,
     before |-> _subs[channel], due |-> Len(frames), took |-> Len(r.enq),
     repeat |-> (op = "replace" /\ last_call.op = "replace"
                 /\ last_call.channel = channel /\ last_call.target = target),
     first_diff |-> (last_call.due > 0), raised |-> raised]

\* ------------------------------------------------------------------------
\* PolygonWebSocketClient: subscription calls
\* ------------------------------------------------------------------------
subscribe_many(symbols, channel) ==
    LET syms == NonBlank(symbols)
        new == SelectSeq(syms, LAMBDA s : s \notin _subs[channel])
        frames == IF new # <<>> THEN <<_make_sub_msg(new, channel)>> ELSE <<>>
        r == EnqueueAll(_sendq, frames, 1, <<>>)
    IN  /\ _subs' = [_subs EXCEPT ![channel] = @ \cup Elems(new)]
        /\ _sendq' = r.q
        /\ last_call' = Call("subscribe", channel, Elems(syms), frames, r, FALSE)

\* the loop of remove() raises KeyError at the second occurrence of a symbol,
\* after the first was removed and before anything is enqueued
unsubscribe_many(symbols, channel) ==
    LET syms == NonBlank(symbols)
        rem == SelectSeq(syms, LAMBDA s : s \in _subs[channel])
        raised == HasDuplicate(rem)
        removed == IF raised THEN {rem[i] : i \in 1..(FirstRepeat(rem) - 1)}
                   ELSE Elems(rem)
        frames == IF rem # <<>> /\ ~raised THEN <<_make_unsub_msg(rem, channel)>> ELSE <<>>
        r == EnqueueAll(_sendq, frames, 1, <<>>)
    IN  /\ _subs' = [_subs EXCEPT ![channel] = @ \ removed]
        /\ _sendq' = r.q
        /\ last_call' = Call("unsubscribe", channel, Elems(syms), frames, r, raised)

\* the frames replace_with hands to _enqueue: the unsubscribe first
ReplaceFrames_sub_first(current, target, channel) ==
    (IF target \ current # {}
     THEN <<_make_sub_msg(Sorted(target \ current), channel)>> ELSE <<>>)
    \o (IF current \ target # {}
        THEN <<_make_unsub_msg(Sorted(current \ target), channel)>> ELSE <<>>)
ReplaceFrames(current, target, channel) ==
    (IF current \ target # {}
     THEN <<_make_unsub_msg(Sorted(current \ target), channel)>> ELSE <<>>)
    \o (IF target \ current # {}
        THEN <<_make_sub_msg(Sorted(target \ current), channel)>> ELSE <<>>)

\* self._subs[channel] = target
ReplaceInstall_keep(current, target) == current
ReplaceInstall(current, target) == target

replace_with(symbols, channel) ==
    LET target == Elems(NonBlank(symbols))
        current == _subs[channel]
        frames == ReplaceFrames(current, target, channel)
        r == EnqueueAll(_sendq, frames, 1, <<>>)
    IN  /\ _sendq' = r.q
        /\ _subs' = [_subs EXCEPT ![channel] = ReplaceInstall(current, target)]
        /\ last_call' = Call("replace", channel, target, frames, r, FALSE)

\* what a call from the control thread leaves alone
CallFrame ==
    /\ conn' = [conn EXCEPT !.calls_since_close = TRUE]
    /\ UNCHANGED <<_connected_evt, _connect_attempts, backoff, runner_pc, sender_pc,
                   sender_msg, auth_events, resub>>

\* one subscription call with symbols from `lists`, while fewer than `budget`
\* calls were made
SubscribeCall(budget, lists) ==
    \E symbols \in lists, channel \in CallChannels :
        last_call.n < budget /\ subscribe_many(symbols, channel) /\ CallFrame
UnsubscribeCall(budget, lists) ==
    \E symbols \in lists, channel \in CallChannels :
        last_call.n < budget /\ unsubscribe_many(symbols, channel) /\ CallFrame
ReplaceCall(budget, lists) ==
    \E symbols \in lists, channel \in CallChannels :
        last_call.n < budget /\ replace_with(symbols, channel) /\ CallFrame

\* ------------------------------------------------------------------------
\* PolygonWebSocketClient: the runner thread and the socket callbacks
\* ------------------------------------------------------------------------
Min(a, b) == IF a < b THEN a ELSE b

\* _spawn_ws: a new WebSocketApp and a new runner thread
_spawn_ws == runner_pc' = "spawned"

\* start(): the sender thread is the one the model runs from the beginning
WsStart ==
    /\ runner_pc = "none"
    /\ _spawn_ws
    /\ UNCHANGED <<_subs, _sendq, _connected_evt, _connect_attempts, backoff, sender_pc,
                   sender_msg, auth_events, last_call, conn, resub>>

\* _run_forever, its first two lines
RunnerBegin ==
    /\ runner_pc = "spawned"
    /\ backoff' = 1
    /\ _connect_attempts' = 0
    /\ runner_pc' = "loop"
    /\ UNCHANGED <<_subs, _sendq, _connected_evt, sender_pc, sender_msg,
                   auth_events, last_call, conn, resub>>

\* the top of the while loop, up to the call of self._wsapp.run_forever
RunnerAttempt ==
    /\ runner_pc = "loop"
    /\ conn.n < MaxConnects
    /\ _connect_attempts' = _connect_attempts + 1
    /\ runner_pc' = "connecting"
    /\ conn' = [conn EXCEPT !.n = @ + 1]
    /\ UNCHANGED <<_subs, _sendq, _connected_evt, backoff, sender_pc, sender_msg,
                   auth_events, last_call, resub>>

\* the socket opens: _on_open
_on_open ==
    /\ runner_pc = "connecting"
    /\ _connected_evt' = TRUE
    /\ _sendq' = _enqueue(_sendq, AuthFrame)
    /\ runner_pc' = "open"
    /\ conn' = [conn EXCEPT !.streak = 0, !.authed = FALSE]
    /\ UNCHANGED <<_subs, _connect_attempts, backoff, sender_pc, sender_msg,
                   auth_events, last_call, resub>>

\* the socket reports an error: _on_error only logs
_on_error == UNCHANGED <<_subs, _sendq>>

\* the connection attempt fails: _on_error, run_forever returns or raises
\* without the socket ever opening, then self._connected_evt.clear()
ConnectFail ==
    /\ runner_pc = "connecting"
    /\ _on_error
    /\ _connected_evt' = FALSE
    /\ runner_pc' = "closed"
    /\ conn' = [conn EXCEPT !.streak = @ + 1]
    /\ UNCHANGED <<_connect_attempts, backoff, sender_pc, sender_msg,
                   auth_events, last_call, resub>>

\* the open socket closes: _on_close, run_forever returns, the runner clears
\* the event again; events the upstream sent and the client did not read are lost
_on_close_forgetting ==
    /\ runner_pc = "open"
    /\ _connected_evt' = FALSE
    /\ _subs' = [ch \in Channels |-> {}]
    /\ runner_pc' = "closed"
    /\ auth_events' = 0
    /\ conn' = [conn EXCEPT !.had_disconnect = TRUE, !.subs_at_close = _subs,
                            !.calls_since_close = FALSE, !.authed = FALSE]
    /\ UNCHANGED <<_sendq, _connect_attempts, backoff, sender_pc, sender_msg,
                   last_call, resub>>
_on_close ==
    /\ runner_pc = "open"
    /\ _connected_evt' = FALSE
    /\ runner_pc' = "closed"
    /\ auth_events' = 0
    /\ conn' = [conn EXCEPT !.had_disconnect = TRUE, !.subs_at_close = _subs,
                            !.calls_since_close = FALSE, !.authed = FALSE]
    /\ UNCHANGED <<_subs, _sendq, _connect_attempts, backoff, sender_pc, sender_msg,
                   last_call, resub>>

\* slp = min(backoff, self.max_backoff); time.sleep(slp + jitter)
RunnerSleep ==
    /\ runner_pc = "closed"
    /\ runner_pc' = "sleeping"
    /\ conn' = [conn EXCEPT !.last_delay = Min(backoff, max_backoff)]
    /\ UNCHANGED <<_subs, _sendq, _connected_evt, _connect_attempts, backoff, sender_pc,
                   sender_msg, auth_events, last_call, resub>>

\* backoff = min(backoff * 2, self.max_backoff); self._spawn_ws(); return
RunnerHandoff ==
    /\ runner_pc = "sleeping"
    /\ backoff' = Min(backoff * 2, max_backoff)
    /\ _spawn_ws
    /\ UNCHANGED <<_subs, _sendq, _connected_evt, _connect_attempts, sender_pc,
                   sender_msg, auth_events, last_call, conn, resub>>

\* for ch, syms in self._subs.items(): if syms: _enqueue(_make_sub_msg(sorted(syms), ch))
RECURSIVE ResubFrames_all_channels(_, _)
ResubFrames_all_channels(subs, i) ==
    IF i > Len(ChannelOrder) THEN <<>>
    ELSE <<_make_sub_msg(Sorted(subs[ChannelOrder[i]]), ChannelOrder[i])>>
         \o ResubFrames_all_channels(subs, i + 1)
RECURSIVE ResubFrames(_, _)
ResubFrames(subs, i) ==
    IF i > Len(ChannelOrder) THEN <<>>
    ELSE (IF subs[ChannelOrder[i]] # {}
          THEN <<_make_sub_msg(Sorted(subs[ChannelOrder[i]]), ChannelOrder[i])>> ELSE <<>>)
         \o ResubFrames(subs, i + 1)

_resub_all ==
    LET frames == ResubFrames(_subs, 1)
        r == EnqueueAll(_sendq, frames, 1, <<>>)
    IN  /\ _sendq' = r.q
        /\ resub' = [n |-> resub.n + 1, due |-> Len(frames), took |-> Len(r.enq),
                     reconnect |-> conn.had_disconnect]
        /\ UNCHANGED _subs

\* _on_message with a status event "auth_success" / "authenticated"
OnAuthSuccess ==
    /\ runner_pc = "open"
    /\ auth_events > 0
    /\ auth_events' = auth_events - 1
    /\ _resub_all
    /\ conn' = [conn EXCEPT !.authed = TRUE]
    /\ UNCHANGED <<_connected_evt, _connect_attempts, backoff, runner_pc, sender_pc,
                   sender_msg, last_call>>

\* ------------------------------------------------------------------------
\* PolygonWebSocketClient: the sender thread (_sendq_pump)
\* ------------------------------------------------------------------------
\* msg = self._sendq.get(timeout=0.5)
SenderGet ==
    /\ runner_pc # "none"
    /\ sender_pc = "get"
    /\ _sendq # <<>>
    /\ sender_msg' = Head(_sendq)
    /\ _sendq' = Tail(_sendq)
    /\ sender_pc' = "have"
    /\ UNCHANGED <<_subs, _connected_evt, _connect_attempts, backoff, runner_pc,
                   auth_events, last_call, conn, resub>>

\* connected: self._wsapp.send(msg); the upstream answers an auth frame with
\* one authentication-success event
SenderSend ==
    /\ sender_pc = "have"
    /\ _connected_evt
    /\ auth_events' = IF sender_msg.action = "auth" THEN auth_events + 1 ELSE auth_events
    /\ sender_msg' = NoFrame
    /\ sender_pc' = "get"
    /\ UNCHANGED <<_subs, _sendq, _connected_evt, _connect_attempts, backoff, runner_pc,
                   last_call, conn, resub>>

\* not connected: sleep, then put_nowait(msg) at the tail; on queue.Full the
\* except branch sleeps and tries once more, and drops the frame if still full
SenderRequeue ==
    /\ sender_pc = "have"
    /\ ~_connected_evt
    /\ _sendq' = _enqueue(_sendq, sender_msg)
    /\ sender_msg' = NoFrame
    /\ sender_pc' = "get"
    /\ UNCHANGED <<_subs, _connected_evt, _connect_attempts, backoff, runner_pc,
                   auth_events, last_call, conn, resub>>

\* ------------------------------------------------------------------------
\* SpecWS: the client with its runner, its sender and a caller
\* ------------------------------------------------------------------------
NextWS ==
    \/ WsStart /\ UNCHANGED <<offClient, sendHistVars>>
    \/ SubscribeCall(MaxWsCalls, WsSymLists) /\ UNCHANGED <<offClient, sendHistVars>>
    \/ UnsubscribeCall(MaxWsCalls, WsSymLists) /\ UNCHANGED <<offClient, sendHistVars>>
    \/ ReplaceCall(MaxWsCalls, WsSymLists) /\ UNCHANGED <<offClient, sendHistVars>>
    \/ RunnerBegin /\ UNCHANGED <<offClient, sendHistVars>>
    \/ RunnerAttempt /\ UNCHANGED <<offClient, sendHistVars>>
    \/ _on_open /\ UNCHANGED <<offClient, sendHistVars>>
    \/ ConnectFail /\ UNCHANGED <<offClient, sendHistVars>>
    \/ _on_close /\ UNCHANGED <<offClient, sendHistVars>>
    \/ OnAuthSuccess /\ UNCHANGED <<offClient, sendHistVars>>
    \/ RunnerSleep /\ UNCHANGED <<offClient, sendHistVars>>
    \/ RunnerHandoff /\ UNCHANGED <<offClient, sendHistVars>>
    \/ SenderGet /\ UNCHANGED <<offClient, sendHistVars>>
    \/ SenderSend /\ UNCHANGED <<offClient, sendHistVars>>
    \/ SenderRequeue /\ UNCHANGED <<offClient, sendHistVars>>

SpecWS == Init /\ [][NextWS]_vars


\* ------------------------------------------------------------------------
\* SpecSend: SpecWS with a record of what _enqueue accepted and of what
\* was written to the socket
\* ------------------------------------------------------------------------
OpenMark == [action |-> "open", params |-> <<>>]

\* the step appended frames to the send queue: they are logged in that order
LogEnqueue == enq_log' = enq_log \o SubSeq(_sendq', Len(_sendq) + 1, Len(_sendq'))

\* the step found the send queue full for a frame of the call, of the
\* re-subscription, or for the one frame of _on_open or of the sender
CallOverflow == overflow' = (overflow \/ last_call'.took < last_call'.due)
ResubOverflow == overflow' = (overflow \/ resub'.took < resub'.due)
PutOverflow == overflow' = (overflow \/ Len(_sendq) >= max_send_queue)

NextSend ==
    \/ WsStart /\ UNCHANGED <<offClient, sendHistVars>>
    \/ SubscribeCall(MaxWsCalls, WsSymLists) /\ LogEnqueue /\ CallOverflow
          /\ UNCHANGED <<offClient, wire>>
    \/ UnsubscribeCall(MaxWsCalls, WsSymLists) /\ LogEnqueue /\ CallOverflow
          /\ UNCHANGED <<offClient, wire>>
    \/ ReplaceCall(MaxWsCalls, WsSymLists) /\ LogEnqueue /\ CallOverflow
          /\ UNCHANGED <<offClient, wire>>
    \/ RunnerBegin /\ UNCHANGED <<offClient, sendHistVars>>
    \/ RunnerAttempt /\ UNCHANGED <<offClient, sendHistVars>>
    \/ _on_open /\ LogEnqueue /\ PutOverflow /\ wire' = Append(wire, OpenMark)
          /\ UNCHANGED offClient
    \/ ConnectFail /\ UNCHANGED <<offClient, sendHistVars>>
    \/ _on_close /\ UNCHANGED <<offClient, sendHistVars>>
    \/ OnAuthSuccess /\ LogEnqueue /\ ResubOverflow /\ UNCHANGED <<offClient, wire>>
    \/ RunnerSleep /\ UNCHANGED <<offClient, sendHistVars>>
    \/ RunnerHandoff /\ UNCHANGED <<offClient, sendHistVars>>
    \/ SenderGet /\ UNCHANGED <<offClient, sendHistVars>>
    \/ SenderSend /\ wire' = Append(wire, sender_msg) /\ UNCHANGED <<offClient, enq_log, overflow>>
    \/ SenderRequeue /\ PutOverflow /\ UNCHANGED <<offClient, enq_log, wire>>

SpecSend == Init /\ [][NextSend]_vars

\* the frames written to the socket so far, over all connections
SentFrames == SelectSeq(wire, LAMBDA f : f.action # "open")

\* a[i..] can be matched, in order, against entries of b[j..]
RECURSIVE InOrderFrom(_, _, _, _)
InOrderFrom(a, i, b, j) ==
    IF i > Len(a) THEN TRUE
    ELSE IF j > Len(b) THEN FALSE
    ELSE IF a[i] = b[j] THEN InOrderFrom(a, i + 1, b, j + 1)
    ELSE InOrderFrom(a, i, b, j + 1)

\* C11: the frames written to the socket appear in the order in which they
\* were enqueued: the sequence sent is, in order, part of the sequence of
\* frames the send queue accepted, whatever disconnected periods lie between.
C11_SendOrder == InOrderFrom(SentFrames, 1, enq_log, 1)

\* C12: on every connection the first frame written to the socket is the auth
\* frame: in the record of the socket, what follows the opening of a
\* connection is an auth frame (or the next opening, if nothing was sent).
C12_AuthFirst ==
    \A i \in DOMAIN wire :
        (wire[i].action = "open" /\ i < Len(wire)) => wire[i + 1].action \in {"auth", "open"}

\* ------------------------------------------------------------------------
\* SpecCalls: subscription calls on a client that is not connected, so that
\* the frames stay in the send queue
\* ------------------------------------------------------------------------
NextCalls ==
    \/ SubscribeCall(MaxCalls, SymLists) /\ UNCHANGED <<offClient, sendHistVars>>
    \/ UnsubscribeCall(MaxCalls, SymLists) /\ UNCHANGED <<offClient, sendHistVars>>
    \/ ReplaceCall(MaxCalls, SymLists) /\ UNCHANGED <<offClient, sendHistVars>>

SpecCalls == Init /\ [][NextCalls]_vars


\* ------------------------------------------------------------------------
\* Replace: the diff and its repetition
\* ------------------------------------------------------------------------
\* frame is an `action` frame of `channel` listing each symbol of S once
Lists(frame, action, channel, S) ==
    /\ frame.action = action
    /\ Len(frame.params) = Cardinality(S)
    /\ Elems(frame.params) = {<<channel, sym>> : sym \in S}

\* what a replace of `before` by `target` is to emit, in order
DiffExpected(before, target) ==
    (IF before \ target # {}
     THEN <<[action |-> "unsubscribe", S |-> before \ target]>> ELSE <<>>)
    \o (IF target \ before # {}
        THEN <<[action |-> "subscribe", S |-> target \ before]>> ELSE <<>>)

\* queue q2 is queue q followed by frames for the first k entries of exp
QueueGot(q, q2, exp, channel, k) ==
    /\ Len(q2) = Len(q) + k
    /\ SubSeq(q2, 1, Len(q)) = q
    /\ \A i \in 1..k : Lists(q2[Len(q) + i], exp[i].action, channel, exp[i].S)

ReplaceStep == last_call'.n = last_call.n + 1 /\ last_call'.op = "replace"

\* C6, as stated: every replace_with(new) appends to the send queue an
\* unsubscribe frame listing exactly current - new (if non-empty), then a
\* subscribe frame listing exactly new - current (if non-empty), nothing else,
\* and installs new as the channel's set.
C6_ReplaceDiffing ==
    [][ReplaceStep =>
        LET channel == last_call'.channel
            exp == DiffExpected(_subs[channel], last_call'.target)
        IN  /\ QueueGot(_sendq, _sendq', exp, channel, Len(exp))
            /\ _subs'[channel] = last_call'.target]_vars

\* C6, amended: replace_with(new) hands that unsubscribe frame and then that
\* subscribe frame to the send queue, which takes each one only while it holds
\* fewer than max_send_queue frames and drops it otherwise; new is installed as
\* the channel's set in every case.
C6_ReplaceDiffingRoom ==
    [][ReplaceStep =>
        LET channel == last_call'.channel
            exp == DiffExpected(_subs[channel], last_call'.target)
        IN  /\ QueueGot(_sendq, _sendq', exp, channel,
                        Min(Len(exp), max_send_queue - Len(_sendq)))
            /\ _subs'[channel] = last_call'.target]_vars

\* a replace with both frames due, of which the queue took only the first
C6_Witness ==
    /\ last_call.op = "replace"
    /\ last_call.before \ last_call.target # {}
    /\ last_call.target \ last_call.before # {}
    /\ last_call.due = 2
    /\ last_call.took = 1
    /\ Len(_sendq) = max_send_queue
    /\ _sendq[max_send_queue].action = "unsubscribe"
    /\ _subs[last_call.channel] = last_call.target

\* C7: a replace_with(X, channel) that directly follows the same call
\* enqueues nothing, raises nothing and leaves the channel's set equal to X.
C7_ReplaceIdempotent ==
    [][ReplaceStep /\ last_call'.repeat =>
        /\ _sendq' = _sendq
        /\ ~last_call'.raised
        /\ _subs'[last_call'.channel] = last_call'.target]_vars

\* the second of two equal replace calls, the first of which had a diff to emit
C7_Witness ==
    /\ last_call.op = "replace"
    /\ last_call.repeat
    /\ last_call.first_diff
    /\ last_call.target # {}
    /\ last_call.due = 0
    /\ last_call.took = 0


\* ------------------------------------------------------------------------
\* Reconnection: the held sets, the re-subscription, the retry delay
\* ------------------------------------------------------------------------
\* C8: once a connection that follows a disconnect has authenticated, and no
\* subscription call was made since the disconnect, every channel holds the
\* set it held right before the disconnect; and no step other than a
\* subscription call (open, close, error, reconnect, re-subscribe, the sender)
\* changes the held sets.
C8_HeldSetsSurvive ==
    /\ [](conn.had_disconnect /\ conn.authed /\ ~conn.calls_since_close
            => _subs = conn.subs_at_close)
    /\ [][last_call' = last_call => _subs' = _subs]_vars

\* authenticated again after a disconnect, holding symbols, no call in between
C8_Witness ==
    /\ conn.had_disconnect
    /\ conn.authed
    /\ ~conn.calls_since_close
    /\ resub.reconnect
    /\ conn.subs_at_close["T"] # {}
    /\ _subs["T"] # {}

\* the channels with a non-empty held set, in the order _resub_all visits them
NonEmptyChannels(subs) == SelectSeq(ChannelOrder, LAMBDA ch : subs[ch] # {})

\* queue q2 is queue q followed by one subscribe frame for each of the first
\* k channels of chs, listing exactly the symbols subs holds for it
QueueGotResub(q, q2, subs, chs, k) ==
    /\ Len(q2) = Len(q) + k
    /\ SubSeq(q2, 1, Len(q)) = q
    /\ \A i \in 1..k : Lists(q2[Len(q) + i], "subscribe", chs[i], subs[chs[i]])

ResubStep == resub'.n = resub.n + 1 /\ conn.had_disconnect

\* C9, as stated: on the authentication-success event of a connection that
\* follows a disconnect, exactly one subscribe frame per channel with a
\* non-empty held set goes out, listing every held symbol of that channel, and
\* no subscribe frame for an empty channel.
C9_ResubFrames ==
    [][ResubStep =>
        LET chs == NonEmptyChannels(_subs)
        IN  QueueGotResub(_sendq, _sendq', _subs, chs, Len(chs))]_vars

\* C9, amended: on that event the client hands to the send queue exactly one
\* subscribe frame per channel with a non-empty held set (channels in the
\* order T, Q, A), listing every held symbol of the channel once, and none for
\* an empty channel; the queue takes each frame only while it holds fewer than
\* max_send_queue frames and drops it otherwise.
C9_ResubFramesRoom ==
    [][ResubStep =>
        LET chs == NonEmptyChannels(_subs)
        IN  QueueGotResub(_sendq, _sendq', _subs, chs,
                          Min(Len(chs), max_send_queue - Len(_sendq)))]_vars

\* a re-subscription after a reconnect whose frame for T is in the queue
C9_Witness ==
    /\ resub.n > 0
    /\ resub.reconnect
    /\ resub.due = 1
    /\ resub.took = 1
    /\ _subs["T"] # {}
    /\ _subs["A"] = {}
    /\ _sendq # <<>>
    /\ Lists(_sendq[Len(_sendq)], "subscribe", "T", _subs["T"])

RECURSIVE Pow2(_)
Pow2(k) == IF k = 0 THEN 1 ELSE 2 * Pow2(k - 1)

\* C10: while the runner waits before the retry that follows the k-th
\* consecutive failed connection attempt, the base delay is min(2^(k-1),
\* max_backoff) seconds and the attempt counter has not been reset (it counts
\* at least the k failed attempts).
C10_Backoff ==
    runner_pc = "sleeping" /\ conn.streak >= 1 =>
        /\ conn.last_delay = Min(Pow2(conn.streak - 1), max_backoff)
        /\ _connect_attempts >= conn.streak

\* ------------------------------------------------------------------------
\* DoubleRingBuffer (shared_mem/buffers.py): append, drain, snapshot.
\* Every method body runs under self._lock, so each call is one step.
\* Items are numbered in append order: the k-th append puts item k.
\* ------------------------------------------------------------------------
MaxCapacity == 2
MaxAppends == 4
MaxSnapArg == 3

\* the last n elements of a sequence, the Python slice s[-n:] for n >= 1
LastN(s, n) == IF n >= Len(s) THEN s ELSE SubSeq(s, Len(s) - n + 1, Len(s))

\* deque(maxlen=m).append(item): a full deque discards from the other end
DequeAppend_unbounded(d, item, m) == Append(d, item)
DequeAppend(d, item, m) ==
    IF m = 0 THEN <<>>
    ELSE IF Len(d) >= m THEN Append(Tail(d), item)
    ELSE Append(d, item)

\* list(self._drain): the deque's items, oldest first
RECURSIVE Reversed(_)
Reversed(s) == IF s = <<>> THEN <<>> ELSE Append(Reversed(Tail(s)), Head(s))
ListOf_newest_first(d) == Reversed(d)
ListOf(d) == d

\* self._drain.clear()
DequeClear_keep(d) == d
DequeClear(d) == <<>>

\* append(item)
RingAppend ==
    /\ ring.appended < MaxAppends
    /\ LET item == ring.appended + 1 IN
       /\ _active' = DequeAppend(_active, item, _maxlen)
       /\ ring' = [ring EXCEPT !.appended = item,
                               !.evicted = @ \cup (Elems(_active) \ Elems(_active')),
                               !.put = [item |-> item, before |-> _active,
                                        after |-> _active']]
    /\ UNCHANGED <<_maxlen, _drain>>

\* drain(), also reached as get_short()
RingDrain ==
    LET swapped_active == _drain
        swapped_drain == _active
        items == ListOf(swapped_drain)
    IN  /\ _active' = swapped_active
        /\ _drain' = DequeClear(swapped_drain)
        /\ ring' = [ring EXCEPT !.drained = @ \o items,
                                !.mark = ring.appended,
                                !.last = [n |-> IF ring.last.n < 2 THEN ring.last.n + 1 ELSE 2,
                                          items |-> items,
                                          swap |-> _active,
                                          active_after |-> _active',
                                          drain_after |-> _drain',
                                          since |-> ring.appended - ring.mark]]
        /\ UNCHANGED _maxlen

\* snapshot(max_items); NoArg is the default None
NoArg == -1
SnapshotItems(items, max_items) ==
    IF max_items # NoArg /\ max_items # 0 /\ max_items > 0
    THEN LastN(items, max_items)
    ELSE items

RingSnapshot ==
    \E max_items \in (0 .. MaxSnapArg) \cup {NoArg} :
        /\ UNCHANGED <<_maxlen, _active, _drain>>
        /\ ring' = [ring EXCEPT !.snap = [taken |-> TRUE, n |-> max_items,
                                           items |-> SnapshotItems(ListOf(_active), max_items),
                                           before |-> <<_active, _drain>>,
                                           after |-> <<_active', _drain'>>]]

InitRing ==
    /\ state_by_source = [src \in Sources |-> [k \in Keys |-> None]]
    /\ chart_ts = [k \in Keys |-> NoTs]
    /\ now = StartMs
    /\ eff_query = NoQuery
    /\ BridgeIdle
    /\ WsIdle
    /\ \E capacity \in 1 .. MaxCapacity : RingIdle(capacity)
    /\ RegIdle
    /\ BusIdle
    /\ IngIdle
    /\ LoopIdle
    /\ DispatchIdle
    /\ LifeIdle
    /\ RaceIdle
    /\ LockIdle

offRing == <<bridgeVars, histVars, clientVars, regVars, busVars, ingVars, loopVars, dispVars, lifeVars, raceVars,
    lockVars>>

NextRing ==
    \/ RingAppend /\ UNCHANGED offRing
    \/ RingDrain /\ UNCHANGED offRing
    \/ RingSnapshot /\ UNCHANGED offRing

SpecRing == InitRing /\ [][NextRing]_vars

\* the items appended so far, in append order
AppendSeq(n) == [i \in 1 .. n |-> i]
Increasing(s) == \A i, j \in DOMAIN s : i < j => s[i] < s[j]
IsSuffix(s, t) == Len(s) <= Len(t) /\ s = SubSeq(t, Len(t) - Len(s) + 1, Len(t))
NotEvicted(s) == SelectSeq(s, LAMBDA x : x \notin ring.evicted)

\* C13: a drain returns, in append order, all the items that were in the
\* active deque at the swap and leaves the new active deque empty, and no
\* item is returned by more than one drain (the drains' results, put end
\* to end, hold every item at most once).
C13_DrainReturns ==
    /\ Increasing(_active)
    /\ ring.last.n > 0 =>
        /\ ring.last.items = ring.last.swap
        /\ Increasing(ring.last.items)
        /\ ring.last.active_after = <<>>
    /\ \A i, j \in DOMAIN ring.drained : i # j => ring.drained[i] # ring.drained[j]

\* two drains that both returned items, with items appended since
C13_Witness ==
    /\ ring.last.n = 2
    /\ ring.last.items # <<>>
    /\ Len(ring.drained) > Len(ring.last.items)
    /\ _active # <<>>

\* C14 as stated: whatever the calls so far, the values returned by all the
\* drains form a suffix of the append sequence, the evicted items left out.
C14_DrainSuffix == IsSuffix(ring.drained, NotEvicted(AppendSeq(ring.appended)))

\* C14: the drains' results, put end to end in call order, are the append
\* sequence up to the last drain without the evicted items (so no item twice,
\* none out of order), and a drain returns the last min(capacity, k) of the k
\* items appended since the previous drain.
C14_DrainPrefix ==
    /\ ring.drained = NotEvicted(AppendSeq(ring.mark))
    /\ ring.last.n > 0 =>
           ring.last.items =
               LastN(SubSeq(AppendSeq(ring.mark), ring.mark - ring.last.since + 1, ring.mark),
                     Min(_maxlen, ring.last.since))

\* a second drain after an eviction: an item in the middle is missing
C14_Witness ==
    /\ ring.last.n = 2
    /\ ring.evicted # {}
    /\ Len(ring.last.items) = _maxlen
    /\ Len(ring.drained) > _maxlen
    /\ ring.appended > ring.mark

\* C15: the active deque never holds more than capacity items, an append to
\* a full active deque evicts exactly the oldest item, an append is always
\* possible, and no drain returns more than capacity items.
C15_RingBound ==
    /\ Len(_active) <= _maxlen
    /\ Len(ring.last.items) <= _maxlen
    /\ ring.put.item > 0 =>
           ring.put.after = IF Len(ring.put.before) = _maxlen
                            THEN Append(Tail(ring.put.before), ring.put.item)
                            ELSE Append(ring.put.before, ring.put.item)
    /\ ring.appended < MaxAppends => ENABLED RingAppend

\* an append to a full capacity-1 buffer, after a drain that returned an item
C15_Witness ==
    /\ _maxlen = 1
    /\ Len(ring.put.before) = 1
    /\ ring.put.after = <<ring.put.item>>
    /\ Len(ring.last.items) = 1

\* C16: for n >= 0, snapshot(n) returns the most recent min(n, len(active))
\* items of the active deque in append order and changes neither deque.
C16_Snapshot ==
    (ring.snap.taken /\ ring.snap.n >= 0) =>
        /\ ring.snap.items = LastN(ring.snap.before[1], Min(ring.snap.n, Len(ring.snap.before[1])))
        /\ ring.snap.after = ring.snap.before

\* ------------------------------------------------------------------------
\* _Registry (shared_mem/registry.py) and hydrate_snapshot
\* (shared_mem/hydrator.py). Every registry method runs under self._lock.
\* Prices are counted in half cents, so that the mid of two prices in whole
\* cents is a whole number; a quotient of sizes is a fraction <<num, den>>
\* in lowest terms.
\* ------------------------------------------------------------------------
MODE_COLD == "COLD"
MODE_WATCH == "WATCH"
MODE_WARM == "WARM"
MODE_HOT == "HOT"
MODES == {MODE_COLD, MODE_WATCH, MODE_WARM, MODE_HOT}

\* None in last_price
NoPrice == -1

\* str.upper() on the strings the callers pass
Upper(str) ==
    CASE str = "aapl" -> "AAPL"
      [] str = "warm" -> "WARM"
      [] str = "bogus" -> "BOGUS"
      [] OTHER -> str

RegSymInputs == Symbols \cup {"aapl"}
ModeArgs == MODES \cup {"warm", "bogus"}

Abs(x) == IF x < 0 THEN 0 - x ELSE x
Max(a, b) == IF a > b THEN a ELSE b
RECURSIVE GCD(_, _)
GCD(a, b) == IF b = 0 THEN a ELSE GCD(b, a % b)
\* the quotient n / d, d > 0
Rat(n, d) == LET g == GCD(Abs(n), d) IN <<n \div g, d \div g>>
Zero == <<0, 1>>
\* the quotient n / 1e-12 of a whole number n: 0.0, or n over a denominator
\* written 0 that stands for epsilon
OverEpsilon(n) == IF n = 0 THEN Zero ELSE <<n, 0>>

\* _default_fields and the record _ensure builds from it
DefaultSnapshot == [spread |-> 0, mid |-> 0, bid_sz |-> 0, ask_sz |-> 0,
                    imbalance |-> Zero, pressure |-> Zero]
NewRecord == [mode |-> MODE_COLD, flags |-> <<>>, last_update |-> NoTs,
              last_price |-> NoPrice, last_quote |-> None, snapshot |-> DefaultSnapshot]

\* d[k] = v on a dict
Put(d, k, v) == [x \in (DOMAIN d) \cup {k} |-> IF x = k THEN v ELSE d[x]]

\* _ensure(symbol): the dict afterwards
_ensure(d, symbol) ==
    LET s == Upper(symbol) IN IF s \in DOMAIN d THEN d ELSE Put(d, s, NewRecord)

\* the history of a call on key s that turned the dict d into d2
RegCall(op, s, quote, d, d2) ==
    [created |-> reg.created \cup (DOMAIN d2),
     last |-> [op |-> op, symbol |-> s, quote |-> quote,
               present |-> s \in DOMAIN d,
               before |-> IF s \in DOMAIN d THEN d[s] ELSE NewRecord,
               after |-> d2[s],
               others |-> \A k \in DOMAIN d : k # s => (k \in DOMAIN d2 /\ d2[k] = d[k])]]

\* registry[symbol], get_mode(symbol)
__getitem__(symbol) ==
    /\ _data' = _ensure(_data, symbol)
    /\ reg' = RegCall("get", Upper(symbol), <<>>, _data, _data')

\* registry[symbol] = value
__setitem__(symbol, value) ==
    /\ _data' = Put(_data, Upper(symbol), value)
    /\ reg' = RegCall("set", Upper(symbol), <<>>, _data, _data')

\* set_mode(symbol, mode)
set_mode(symbol, mode) ==
    LET s == Upper(symbol)
        d == _ensure(_data, s)
    IN  /\ _data' = [d EXCEPT ![s].mode = Upper(mode)]
        /\ reg' = RegCall("set_mode", s, <<>>, _data, _data')

\* the records a caller assigns
AssignValues == {[NewRecord EXCEPT !.mode = m] : m \in {MODE_WARM, MODE_HOT}}

\* quote.get(key, default)
QuoteGet(quote, key, default) == IF key \in DOMAIN quote THEN quote[key] ELSE default

\* _compute_features; tot > 1e-12 on whole sizes is tot > 0
_compute_features_ask_first(bid_px, bid_sz, ask_px, ask_sz) ==
    LET spread == Max(0, ask_px - bid_px)
        tot == bid_sz + ask_sz
    IN  [spread |-> spread,
         mid |-> IF spread > 0 THEN (ask_px + bid_px) \div 2 ELSE bid_px,
         bid_sz |-> bid_sz, ask_sz |-> ask_sz,
         imbalance |-> IF tot > 0 THEN Rat(ask_sz - bid_sz, tot) ELSE Zero,
         pressure |-> IF tot > 0 THEN Rat(bid_sz - ask_sz, tot)
                      ELSE OverEpsilon(bid_sz - ask_sz)]
_compute_features(bid_px, bid_sz, ask_px, ask_sz) ==
    LET spread == Max(0, ask_px - bid_px)
        mid == IF spread > 0 THEN (ask_px + bid_px) \div 2 ELSE bid_px
        sum_bid == bid_sz
        sum_ask == ask_sz
        tot == sum_bid + sum_ask
        imbalance == IF tot > 0 THEN Rat(sum_bid - sum_ask, tot) ELSE Zero
        pressure == IF bid_sz + ask_sz > 0 THEN Rat(bid_sz - ask_sz, bid_sz + ask_sz)
                    ELSE OverEpsilon(bid_sz - ask_sz)
    IN  [spread |-> spread, mid |-> mid, bid_sz |-> sum_bid, ask_sz |-> sum_ask,
         imbalance |-> imbalance, pressure |-> pressure]

\* the bid and ask hydrate_snapshot reads from a quote
QuoteBid(quote) == QuoteGet(quote, "bid", QuoteGet(quote, "bid_price", 0))
QuoteAsk(quote) == QuoteGet(quote, "ask", QuoteGet(quote, "ask_price", 0))
QuoteBidSz(quote) == QuoteGet(quote, "buy_volume", QuoteGet(quote, "bid_size", 0))
QuoteAskSz(quote) == QuoteGet(quote, "sell_volume", QuoteGet(quote, "ask_size", 0))

\* snap.update(feats)
DictUpdate(a, b) == [k \in (DOMAIN a) \cup (DOMAIN b) |-> IF k \in DOMAIN b THEN b[k] ELSE a[k]]

\* hydrate_snapshot(symbol, quote)
hydrate_snapshot(symbol, quote) ==
    LET s == Upper(symbol)
        d == _ensure(_data, symbol)
        sreg == d[s]
        ts == QuoteGet(quote, "timestamp", NoTs)
        feats == _compute_features(QuoteBid(quote), QuoteBidSz(quote),
                                   QuoteAsk(quote), QuoteAskSz(quote))
        snap == DictUpdate(sreg.snapshot, feats)
    IN  /\ _data' = [d EXCEPT ![s] = [sreg EXCEPT !.snapshot = snap,
                                                  !.last_update = ts,
                                                  !.last_price = snap.mid]]
        /\ reg' = RegCall("hydrate", s, quote, _data, _data')

\* quotes as quote_stream writes them: 100.00 and 100.10, in half cents
Prices == {20000, 20020}
SizePairs == {<<0, 0>>, <<50, 150>>, <<150, 50>>}
QuoteTs == 7
FullQuote(bid, ask, sizes) ==
    [bid_price |-> bid, ask_price |-> ask, bid_size |-> sizes[1], ask_size |-> sizes[2],
     timestamp |-> QuoteTs]
Without(quote, keys) == [k \in (DOMAIN quote) \ keys |-> quote[k]]
\* a quote under the older key names
OldQuote == [bid |-> 20000, ask |-> 20020, buy_volume |-> 50, sell_volume |-> 150]
Quotes ==
    {FullQuote(b, a, z) : b \in Prices, a \in Prices, z \in SizePairs}
    \cup {Without(FullQuote(20000, 20020, <<50, 150>>), m) :
              m \in {{"bid_price"}, {"ask_price"}, {"timestamp"}}}
    \cup {OldQuote}

offReg == <<bridgeVars, histVars, clientVars, ringVars, busVars, ingVars, loopVars, dispVars, lifeVars, raceVars,
    lockVars>>

\* SpecReg: the registry's own methods
NextReg ==
    \/ \E symbol \in RegSymInputs : __getitem__(symbol) /\ UNCHANGED offReg
    \/ \E symbol \in RegSymInputs, mode \in ModeArgs :
          set_mode(symbol, mode) /\ UNCHANGED offReg
    \/ \E symbol \in RegSymInputs, value \in AssignValues :
          __setitem__(symbol, value) /\ UNCHANGED offReg

SpecReg == Init /\ [][NextReg]_vars

\* SpecHydrate: quotes hydrated into a registry whose records are created lazily
NextHydrate ==
    \/ \E symbol \in RegSymInputs : __getitem__(symbol) /\ UNCHANGED offReg
    \/ \E symbol \in RegSymInputs, quote \in Quotes :
          hydrate_snapshot(symbol, quote) /\ UNCHANGED offReg

SpecHydrate == Init /\ [][NextHydrate]_vars

\* C17: every record's mode is one of COLD, WATCH, WARM, HOT, whatever the
\* calls so far, and a record once created is never removed.
C17_ModeValid ==
    /\ \A s \in DOMAIN _data : _data[s].mode \in MODES
    /\ reg.created \subseteq DOMAIN _data

\* a quote hydrate_snapshot has to discard: a side missing, or ask < bid
HasSides(quote) ==
    /\ "bid" \in DOMAIN quote \/ "bid_price" \in DOMAIN quote
    /\ "ask" \in DOMAIN quote \/ "ask_price" \in DOMAIN quote
ValidQuote(quote) == HasSides(quote) /\ QuoteAsk(quote) >= QuoteBid(quote)

\* C18: a hydrate_snapshot call with an invalid quote (ask < bid, or bid or
\* ask missing) leaves the symbol's snapshot and last_price as they were.
C18_InvalidDiscarded ==
    (reg.last.op = "hydrate" /\ ~ValidQuote(reg.last.quote)) =>
        /\ reg.last.after.snapshot = reg.last.before.snapshot
        /\ reg.last.after.last_price = reg.last.before.last_price

\* C19: for a valid quote hydrate_snapshot leaves spread = max(0, ask - bid),
\* mid = (ask + bid) / 2 if spread > 0 else bid, imbalance = (bid_sz - ask_sz)
\* / (bid_sz + ask_sz) when the sum is above epsilon and 0 otherwise,
\* pressure = imbalance and last_price = mid in the symbol's record, and
\* every other symbol's record as it was.
C19_SnapshotDerivation ==
    (reg.last.op = "hydrate" /\ ValidQuote(reg.last.quote)) =>
        LET q == reg.last.quote
            bid == QuoteBid(q)
            ask == QuoteAsk(q)
            sum == QuoteBidSz(q) + QuoteAskSz(q)
            snap == reg.last.after.snapshot
        IN  /\ snap.spread = (IF ask - bid > 0 THEN ask - bid ELSE 0)
            /\ IF snap.spread > 0 THEN 2 * snap.mid = ask + bid ELSE snap.mid = bid
            /\ IF sum > 0
               THEN snap.imbalance[1] * sum = (QuoteBidSz(q) - QuoteAskSz(q)) * snap.imbalance[2]
               ELSE snap.imbalance = Zero
            /\ snap.pressure = snap.imbalance
            /\ reg.last.after.last_price = snap.mid
            /\ reg.last.others

\* the quote 100.00 x 50 / 100.10 x 150 hydrated while the other symbol holds
\* a snapshot of its own
C19_Witness ==
    /\ reg.last.op = "hydrate"
    /\ reg.last.symbol = "AAPL"
    /\ ValidQuote(reg.last.quote)
    /\ reg.last.after.snapshot.spread = 20
    /\ reg.last.after.snapshot.mid = 20010
    /\ reg.last.after.snapshot.imbalance = <<-1, 2>>
    /\ "MSFT" \in DOMAIN _data
    /\ _data["MSFT"].snapshot.imbalance = <<1, 2>>

\* ------------------------------------------------------------------------
\* EventBus (pubsub/bus.py): subscribe, publish. Both run under self._lock.
\* A callback is known by what it does with a message: it returns, or raises.
\* ------------------------------------------------------------------------
MaxSubs == 2
MaxPublishes == 2

Callbacks == {"returns", "raises"}
Messages == {"m1", "m2"}

\* subscribe(topic, callback)
BusSubscribe(topic, callback) ==
    /\ Len(bus_subs[topic]) < MaxSubs
    /\ bus_subs' = [bus_subs EXCEPT ![topic] = Append(@, callback)]
    /\ UNCHANGED <<_queue, bus, recent>>

\* the position of the first callback of the list that raises, 0 when none does
RECURSIVE FirstRaising(_, _)
FirstRaising(cbs, i) ==
    IF i > Len(cbs) THEN 0
    ELSE IF cbs[i] = "raises" THEN i
    ELSE FirstRaising(cbs, i + 1)

\* `for cb in self._subs[topic]: cb(message)`: the callbacks that were called;
\* an exception leaves the loop
Called(cbs) ==
    IF FirstRaising(cbs, 1) = 0 THEN cbs ELSE SubSeq(cbs, 1, FirstRaising(cbs, 1))

\* publish(topic, message): an exception of a callback leaves the `with`
\* block, releasing the lock, before the append, and reaches the caller
BusPublish(topic, message) ==
    LET cbs == bus_subs[topic]
        threw == FirstRaising(Called(cbs), 1) # 0
    IN  /\ bus.n < MaxPublishes
        /\ _queue' = IF threw THEN _queue ELSE Append(_queue, <<topic, message>>)
        /\ bus' = [n |-> bus.n + 1, topic |-> topic, message |-> message, subs |-> cbs,
                   called |-> Called(cbs), threw |-> threw,
                   appended |-> _queue' # _queue, propagated |-> threw]
        /\ UNCHANGED <<bus_subs, recent>>

\* the Python slice s[-n:]: the last n items for n >= 1, and for n = 0 the
\* slice s[0:], which is all of s
SliceFromMinus(s, n) == IF n = 0 THEN s ELSE LastN(s, n)

\* get_recent(limit), limit = 50 when the caller gives none
DefaultLimit == 50
MaxLimit == 2
BusGetRecent(limit) ==
    /\ UNCHANGED <<bus_subs, _queue, bus>>
    /\ recent' = [taken |-> TRUE, limit |-> limit,
                  items |-> SliceFromMinus(ListOf(_queue), limit),
                  of |-> _queue, after |-> _queue']

offBus == <<bridgeVars, histVars, clientVars, ringVars, regVars, ingVars, loopVars, dispVars, lifeVars, raceVars,
    lockVars>>

NextBus ==
    \/ \E topic \in Topics, callback \in Callbacks :
          BusSubscribe(topic, callback) /\ UNCHANGED offBus
    \/ \E topic \in Topics, message \in Messages :
          BusPublish(topic, message) /\ UNCHANGED offBus
    \/ \E limit \in (0 .. MaxLimit) \cup {DefaultLimit} :
          BusGetRecent(limit) /\ UNCHANGED offBus

SpecBus == Init /\ [][NextBus]_vars

\* C20: when a subscriber raises during publish(topic, m), every other
\* subscriber of the topic is still called with m, (topic, m) is appended to
\* the recent history, and the exception does not reach the publisher.
C20_SubscriberIsolation ==
    bus.threw =>
        /\ bus.called = bus.subs
        /\ bus.appended
        /\ ~bus.propagated
        /\ _queue # <<>> /\ _queue[Len(_queue)] = <<bus.topic, bus.message>>

\* C21: the recent history is bounded (within the publishes made here its
\* length stays below their number: some publish leaves the length where it
\* was), and get_recent(limit), limit >= 0, returns at most limit pairs:
\* the most recently published ones, in publish order.
C21_RecentHistory ==
    /\ Len(_queue) < MaxPublishes
    /\ recent.taken =>
        /\ Len(recent.items) <= recent.limit
        /\ recent.items = LastN(recent.of, Min(recent.limit, Len(recent.of)))

\* ------------------------------------------------------------------------
\* SpecReentry: publish() one statement at a time, with callbacks that call
\* back into the bus. threading.Lock is not reentrant: `with self._lock`
\* waits until the lock is free, whoever holds it.
\* ------------------------------------------------------------------------
MaxReentrySubs == 2
MaxBusCalls == 3
ReentrantCallbacks == Callbacks \cup {"publishes", "subscribes"}

\* thread t calls subscribe(topic, callback) or publish(topic, message) and
\* comes to the `with self._lock:` of the method
CallSubscribe(t, topic, callback) ==
    /\ bus_pc[t].at = "idle"
    /\ Len(bus_subs[topic]) < MaxReentrySubs
    /\ bus_pc' = [bus_pc EXCEPT ![t] = [NoBusCall EXCEPT !.at = "acquire", !.op = "subscribe",
                                                          !.topic = topic, !.arg = callback]]
    /\ bus' = [bus EXCEPT !.n = @ + 1]
    /\ UNCHANGED <<bus_subs, _queue, recent, _lock>>

CallPublish(t, topic, message) ==
    /\ bus_pc[t].at = "idle"
    /\ bus_pc' = [bus_pc EXCEPT ![t] = [NoBusCall EXCEPT !.at = "acquire", !.op = "publish",
                                                          !.topic = topic, !.arg = message,
                                                          !.i = 1]]
    /\ bus' = [bus EXCEPT !.n = @ + 1]
    /\ UNCHANGED <<bus_subs, _queue, recent, _lock>>

\* `with self._lock:` is entered once the lock is free. A call made from
\* inside a callback would then run with the lock and give it back to the
\* publish() around it.
Acquire(t) ==
    /\ bus_pc[t].at = "acquire"
    /\ _lock = "free"
    /\ _lock' = t
    /\ bus_pc' = [bus_pc EXCEPT ![t].at = IF bus_pc[t].inner THEN "inner" ELSE "locked"]
    /\ UNCHANGED <<bus_subs, _queue, bus, recent>>

\* self._subs[topic].append(callback), the `with` block ends
SubscribeBody(t) ==
    /\ bus_pc[t].at = "locked"
    /\ bus_pc[t].op = "subscribe"
    /\ bus_subs' = [bus_subs EXCEPT ![bus_pc[t].topic] = Append(@, bus_pc[t].arg)]
    /\ _lock' = "free"
    /\ bus_pc' = [bus_pc EXCEPT ![t] = NoBusCall]
    /\ UNCHANGED <<_queue, bus, recent>>

\* `cb(message)` for the next callback of the topic: it returns; or it
\* raises, which leaves the `with` block and releases the lock; or it calls
\* publish or subscribe of this bus, on the thread that runs it, and comes
\* to the `with self._lock:` of that method
PublishCall(t) ==
    /\ bus_pc[t].at = "locked"
    /\ bus_pc[t].op = "publish"
    /\ bus_pc[t].i <= Len(bus_subs[bus_pc[t].topic])
    /\ LET cb == bus_subs[bus_pc[t].topic][bus_pc[t].i] IN
       CASE cb = "returns" -> /\ bus_pc' = [bus_pc EXCEPT ![t].i = @ + 1]
                              /\ UNCHANGED _lock
         [] cb = "raises" -> /\ bus_pc' = [bus_pc EXCEPT ![t] = NoBusCall]
                             /\ _lock' = "free"
         [] OTHER -> /\ bus_pc' = [bus_pc EXCEPT ![t].at = "acquire", ![t].inner = TRUE]
                     /\ UNCHANGED _lock
    /\ UNCHANGED <<bus_subs, _queue, bus, recent>>

\* after the last callback: self._queue.append((topic, message)), the
\* `with` block ends, publish returns
PublishReturn(t) ==
    /\ bus_pc[t].at = "locked"
    /\ bus_pc[t].op = "publish"
    /\ bus_pc[t].i > Len(bus_subs[bus_pc[t].topic])
    /\ _queue' = Append(_queue, <<bus_pc[t].topic, bus_pc[t].arg>>)
    /\ _lock' = "free"
    /\ bus_pc' = [bus_pc EXCEPT ![t] = NoBusCall]
    /\ UNCHANGED <<bus_subs, bus, recent>>

offLock == <<bridgeVars, histVars, clientVars, ringVars, regVars, ingVars, loopVars, dispVars,
             lifeVars, raceVars>>

NextReentry ==
    \/ \E t \in BusThreads, topic \in Topics, callback \in ReentrantCallbacks :
          bus.n < MaxBusCalls /\ CallSubscribe(t, topic, callback) /\ UNCHANGED offLock
    \/ \E t \in BusThreads, topic \in Topics, message \in Messages :
          bus.n < MaxBusCalls /\ CallPublish(t, topic, message) /\ UNCHANGED offLock
    \/ \E t \in BusThreads : Acquire(t) /\ UNCHANGED offLock
    \/ \E t \in BusThreads : SubscribeBody(t) /\ UNCHANGED offLock
    \/ \E t \in BusThreads : PublishCall(t) /\ UNCHANGED offLock
    \/ \E t \in BusThreads : PublishReturn(t) /\ UNCHANGED offLock

SpecReentry == Init /\ [][NextReentry]_vars

\* C39: publish(topic, m) always returns, also when a callback it invokes
\* calls publish or subscribe on the same bus: the bus lock is never waited
\* on by the thread that already holds it.
C39_BusReentrancy == \A t \in BusThreads : ~(bus_pc[t].at = "acquire" /\ _lock = t)

\* ------------------------------------------------------------------------
\* TradeProcess (ingestion/tick_stream.py); QuoteProcess
\* (ingestion/quote_stream.py) is the same code over other field names.
\* The WS thread runs _on_trade_event, the workers run _worker_loop, the
\* main thread runs stop(); a queue operation is one step.
\* An event is known by its arrival number and by what it carries: "ok" (all
\* required fields), "unparsable" (a sym, but a required field missing or not
\* a number), "no_sym" (no usable sym).
\* ------------------------------------------------------------------------
MaxEvents == 4
EventKinds == {"ok", "unparsable", "no_sym"}
\* the None that stop() puts on the queue
Sentinel == [id |-> 0, kind |-> "None"]

\* _on_trade_event up to the first put_nowait
HandlerBegin(kind) ==
    LET ev == [id |-> ing.received + 1, kind |-> kind]
        usable == kind # "no_sym"
        full == Len(_q) >= max_queue
    IN  /\ h_pc = "idle"
        /\ ~_stop_evt
        /\ ing.received < MaxEvents
        /\ _q' = IF usable /\ ~full THEN Append(_q, ev) ELSE _q
        /\ h_pc' = IF usable /\ full THEN "evict" ELSE "idle"
        /\ h_ev' = IF usable /\ full THEN ev ELSE NoEvent
        /\ ing' = [ing EXCEPT !.received = @ + 1,
                              !.no_sym = IF usable THEN @ ELSE @ + 1,
                              !.last = IF usable
                                       THEN [NoEnqueue EXCEPT !.id = ev.id, !.full = full,
                                                              !.done = ~full,
                                                              !.inserted = ~full]
                                       ELSE @]
        /\ UNCHANGED <<_dropped, _processed, _stop_evt, w_pc, stop_left>>

\* the queue after get_nowait(): the head is gone; an empty queue raises
\* queue.Empty and stays empty
AfterGetNowait_two(q) == IF Len(q) < 2 THEN <<>> ELSE Tail(Tail(q))
AfterGetNowait(q) == IF q = <<>> THEN q ELSE Tail(q)

\* except queue.Full: self._q.get_nowait(), queue.Empty passed over
HandlerEvict ==
    /\ h_pc = "evict"
    /\ _q' = AfterGetNowait(_q)
    /\ h_pc' = "retry"
    /\ LET removed == SubSeq(_q, 1, Len(_q) - Len(_q')) IN
       ing' = [ing EXCEPT !.evicted = @ + Len(SelectSeq(removed, LAMBDA x : x # Sentinel)),
                          !.last.at_evict = _q,
                          !.last.removed = removed]
    /\ UNCHANGED <<_dropped, _processed, _stop_evt, h_ev, w_pc, stop_left>>

\* finally: self._q.put_nowait(ev); on queue.Full the drop is counted
HandlerRetry ==
    LET full == Len(_q) >= max_queue IN
    /\ h_pc = "retry"
    /\ _q' = IF full THEN _q ELSE Append(_q, h_ev)
    /\ _dropped' = IF full THEN _dropped + 1 ELSE _dropped
    /\ h_pc' = "idle"
    /\ h_ev' = NoEvent
    /\ ing' = [ing EXCEPT !.rejected = IF full THEN @ + 1 ELSE @,
                          !.last.done = TRUE,
                          !.last.still_full = full,
                          !.last.inserted = ~full,
                          !.last.counted = _dropped' > _dropped]
    /\ UNCHANGED <<_processed, _stop_evt, w_pc, stop_left>>

\* _normalize_trade(ev) is None: a required field is missing or not a number
Unparsable(ev) == ev.kind = "unparsable"

\* _worker_loop: `while not self._stop_evt.is_set()`
WorkerCheck(w) ==
    /\ w_pc[w] = "check"
    /\ w_pc' = [w_pc EXCEPT ![w] = IF _stop_evt THEN "done" ELSE "get"]
    /\ UNCHANGED <<_q, _dropped, _processed, _stop_evt, h_pc, h_ev, stop_left, ing>>

\* what self._q.get() hands out: queue.Queue is first in, first out
Get_newest(q) == q[Len(q)]
Get(q) == Head(q)

\* self._q.get(timeout=0.5): queue.Empty after half a second leads back to
\* the loop test; of the items, None ends the loop, and an event is
\* normalized and, unless that gives None, published and counted
WorkerGet(w) ==
    /\ w_pc[w] = "get"
    /\ IF _q = <<>>
       THEN /\ w_pc' = [w_pc EXCEPT ![w] = "check"]
            /\ UNCHANGED <<_q, _processed, ing>>
       ELSE LET item == Get(_q) IN
            /\ _q' = Tail(_q)
            /\ w_pc' = [w_pc EXCEPT ![w] = IF item = Sentinel THEN "done" ELSE "check"]
            /\ _processed' = IF item # Sentinel /\ ~Unparsable(item) THEN _processed + 1
                             ELSE _processed
            /\ ing' = [ing EXCEPT !.unparsable = IF item # Sentinel /\ Unparsable(item)
                                                 THEN @ + 1 ELSE @,
                                  !.published = IF item # Sentinel /\ ~Unparsable(item)
                                                THEN Append(@, item) ELSE @]
    /\ UNCHANGED <<_dropped, _stop_evt, h_pc, h_ev, stop_left>>

\* stop(): the flag, then one None per worker thread
StopBeginWith(threads) ==
    /\ stop_left = -1
    /\ _stop_evt' = TRUE
    /\ stop_left' = threads
    /\ UNCHANGED <<_q, _dropped, _processed, h_pc, h_ev, w_pc, ing>>
StopBegin == StopBeginWith(_workers)

\* self._q.put_nowait(None), queue.Full passed over
StopPut ==
    /\ stop_left > 0
    /\ _q' = IF Len(_q) >= max_queue THEN _q ELSE Append(_q, Sentinel)
    /\ stop_left' = stop_left - 1
    /\ UNCHANGED <<_dropped, _processed, _stop_evt, h_pc, h_ev, w_pc, ing>>

offIng == <<bridgeVars, histVars, clientVars, ringVars, regVars, busVars, loopVars, dispVars, lifeVars, raceVars,
    lockVars>>

NextIngest ==
    \/ \E kind \in EventKinds : HandlerBegin(kind) /\ UNCHANGED offIng
    \/ HandlerEvict /\ UNCHANGED offIng
    \/ HandlerRetry /\ UNCHANGED offIng
    \/ \E w \in Workers : WorkerCheck(w) /\ UNCHANGED offIng
    \/ \E w \in Workers : WorkerGet(w) /\ UNCHANGED offIng
    \/ StopBegin /\ UNCHANGED offIng
    \/ StopPut /\ UNCHANGED offIng

SpecIngest == Init /\ [][NextIngest]_vars

\* the events waiting in the queue
QueuedEvents == SelectSeq(_q, LAMBDA item : item # Sentinel)

\* C22 as stated: the handler is never blocked, the queue never holds more
\* than max_queue, an enqueue onto a full queue removes exactly the oldest
\* queued event and inserts the new one, and the new event is dropped, and
\* the drop counted, only if the queue is still full after the eviction.
C22_Backpressure ==
    /\ Len(_q) <= max_queue
    /\ h_pc = "evict" => ENABLED HandlerEvict
    /\ h_pc = "retry" => ENABLED HandlerRetry
    /\ (ing.last.done /\ ing.last.full) =>
        /\ Len(ing.last.removed) = 1
        /\ ing.last.removed[1] = Head(ing.last.at_evict)
        /\ ing.last.inserted = ~ing.last.still_full
        /\ ing.last.counted = ing.last.still_full
    /\ (ing.last.done /\ ~ing.last.full) => (ing.last.inserted /\ ~ing.last.counted)

\* C22: as above, but what is removed is the oldest item of the queue as it
\* is at the get_nowait: nothing when the workers have emptied it meanwhile.
C22_BackpressureAtEvict ==
    /\ Len(_q) <= max_queue
    /\ h_pc = "evict" => ENABLED HandlerEvict
    /\ h_pc = "retry" => ENABLED HandlerRetry
    /\ (ing.last.done /\ ing.last.full) =>
        /\ ing.last.removed = IF ing.last.at_evict = <<>> THEN <<>>
                              ELSE <<Head(ing.last.at_evict)>>
        /\ ing.last.inserted = ~ing.last.still_full
        /\ ing.last.counted = ing.last.still_full
    /\ (ing.last.done /\ ~ing.last.full) => (ing.last.inserted /\ ~ing.last.counted)

\* an event met a full queue, the oldest one went and the new one is queued
C22_Witness ==
    /\ ing.last.done /\ ing.last.full
    /\ Len(ing.last.removed) = 1
    /\ ing.last.inserted
    /\ Len(_q) = max_queue
    /\ _q[Len(_q)].id = ing.last.id

\* C23: every event lost to overflow, evicted or rejected, is in the drop
\* counter: dropped > 0 whenever overflow has lost an event.
C23_OverflowCounted ==
    /\ _dropped = ing.evicted + ing.rejected
    /\ (ing.evicted + ing.rejected > 0) => _dropped > 0

\* published + counted drops + still queued, an event in the handler's hand
\* counting as queued
Accounted == _processed + _dropped + Len(QueuedEvents) + (IF h_pc = "idle" THEN 0 ELSE 1)

\* C24: an event that fails the required-field checks of the normalization
\* is not published and is counted in a counter of the health record, so
\* that events received (with a usable sym) = published + counted drops +
\* still queued.
C24_MalformedCounted == ing.received - ing.no_sym = Accounted

\* ------------------------------------------------------------------------
\* SpecOrder: the ingestion process constructed with workers=1. Only worker 1
\* is started, and stop() puts the one None of its one thread.
\* ------------------------------------------------------------------------
OneWorker == {1}

NextOrder ==
    \/ \E kind \in EventKinds : HandlerBegin(kind) /\ UNCHANGED offIng
    \/ HandlerEvict /\ UNCHANGED offIng
    \/ HandlerRetry /\ UNCHANGED offIng
    \/ \E w \in OneWorker : WorkerCheck(w) /\ UNCHANGED offIng
    \/ \E w \in OneWorker : WorkerGet(w) /\ UNCHANGED offIng
    \/ StopBeginWith(Cardinality(OneWorker)) /\ UNCHANGED offIng
    \/ StopPut /\ UNCHANGED offIng

SpecOrder == Init /\ [][NextOrder]_vars

\* C36: with one worker thread the events published on the bus topic appear
\* in the order the WS handler received them: every published event is one
\* the handler received and the normalization accepted, and the arrival
\* numbers of the published events strictly increase, so none is published
\* twice or out of order.
C36_SingleWorkerOrder ==
    /\ \A i \in DOMAIN ing.published :
           /\ ing.published[i].kind = "ok"
           /\ ing.published[i].id \in 1 .. ing.received
    /\ \A i, j \in DOMAIN ing.published :
           i < j => ing.published[i].id < ing.published[j].id

\* two events published around one that backpressure evicted, and one the
\* normalization rejected
C36_Witness ==
    /\ Len(ing.published) >= 2
    /\ ing.published[2].id > ing.published[1].id + 1
    /\ ing.evicted >= 1
    /\ ing.unparsable >= 1

\* ------------------------------------------------------------------------
\* SpecStop: the threads of the ingestion process around stop(), with so
\* few events that the worker queue never overflows
\* ------------------------------------------------------------------------
MaxStopEvents == 1
MaxCtlMessages == 1
\* what arrives on the control channel: the three operations on channel T,
\* and "other" for a message of another type or another channel
CtlOps == {"subscribe", "unsubscribe", "replace", "other"}
CtlSymLists == {<<"AAPL">>}
CtlMessages == [op : CtlOps, symbols : CtlSymLists]

\* Redis delivers a message to the subscription of _control_loop
ControlArrive(msg) ==
    /\ last_call.n + Len(ctl_inbox) < MaxCtlMessages
    /\ ctl_inbox' = Append(ctl_inbox, msg)
    /\ UNCHANGED <<ctl_pc, health_pc, health>>

\* _control_loop: `for msg in ps.listen()` hands over the next message, and
\* only then is the stop flag looked at
ControlTake ==
    /\ ctl_pc = "listen"
    /\ ctl_inbox # <<>>
    /\ ctl_inbox' = Tail(ctl_inbox)
    /\ UNCHANGED <<health_pc, health>>
    /\ LET msg == Head(ctl_inbox) IN
       IF _stop_evt
       THEN /\ ctl_pc' = "done"
            /\ UNCHANGED clientVars
       ELSE /\ ctl_pc' = "listen"
            /\ CASE msg.op = "subscribe" ->
                        subscribe_many(msg.symbols, "T") /\ CallFrame /\ UNCHANGED sendHistVars
                 [] msg.op = "unsubscribe" ->
                        unsubscribe_many(msg.symbols, "T") /\ CallFrame /\ UNCHANGED sendHistVars
                 [] msg.op = "replace" ->
                        replace_with(msg.symbols, "T") /\ CallFrame /\ UNCHANGED sendHistVars
                 [] OTHER -> UNCHANGED clientVars

\* _health_loop: `while not self._stop_evt.is_set()`
HealthCheck ==
    /\ health_pc = "check"
    /\ health_pc' = IF _stop_evt THEN "done" ELSE "write"
    /\ UNCHANGED <<ctl_pc, ctl_inbox, health>>

\* the stats written to Redis, then time.sleep(2.0)
HealthWrite ==
    /\ health_pc = "write"
    /\ health' = [written |-> TRUE, processed |-> _processed, dropped |-> _dropped,
                  qsize |-> Len(_q)]
    /\ health_pc' = "check"
    /\ UNCHANGED <<ctl_pc, ctl_inbox>>

offLoop == <<bridgeVars, histVars, ringVars, regVars, busVars, ingVars, dispVars, lifeVars, raceVars,
    lockVars>>

EventArrives == \E kind \in EventKinds :
    ing.received < MaxStopEvents /\ HandlerBegin(kind) /\ UNCHANGED offIng
WorkerCheckStep(w) == WorkerCheck(w) /\ UNCHANGED offIng
WorkerGetStep(w) == WorkerGet(w) /\ UNCHANGED offIng
StopCalled == StopBegin /\ UNCHANGED offIng
StopPutStep == StopPut /\ UNCHANGED offIng
ControlArrives == \E msg \in CtlMessages : ControlArrive(msg) /\ UNCHANGED <<offLoop, clientVars>>
ControlStep == ControlTake /\ UNCHANGED offLoop
HealthCheckStep == HealthCheck /\ UNCHANGED <<offLoop, clientVars>>
HealthWriteStep == HealthWrite /\ UNCHANGED <<offLoop, clientVars>>

NextStop ==
    \/ EventArrives
    \/ \E w \in Workers : WorkerCheckStep(w)
    \/ \E w \in Workers : WorkerGetStep(w)
    \/ StopCalled
    \/ StopPutStep
    \/ ControlArrives
    \/ ControlStep
    \/ HealthCheckStep
    \/ HealthWriteStep

\* every thread that can take a step takes one in the end; that an event or
\* a control message arrives, or that stop() is called, is up to the outside
StopFairness ==
    /\ \A w \in Workers : WF_vars(WorkerCheckStep(w)) /\ WF_vars(WorkerGetStep(w))
    /\ WF_vars(StopPutStep)
    /\ WF_vars(ControlStep)
    /\ WF_vars(HealthCheckStep)
    /\ WF_vars(HealthWriteStep)

SpecStop == Init /\ [][NextStop]_vars /\ StopFairness

WorkersDone == \A w \in Workers : w_pc[w] = "done"

\* C25: once the stop flag is set, every long-lived loop thread (workers,
\* control-plane listener, health publisher) terminates, with no further
\* message from outside needed.
C25_ShutdownTerminates ==
    _stop_evt ~> (WorkersDone /\ ctl_pc = "done" /\ health_pc = "done")

\* the loops that test the flag between waits of bounded length do end
C25_PollingLoopsEnd ==
    _stop_evt ~> (WorkersDone /\ health_pc = "done")

\* ------------------------------------------------------------------------
\* SpecChart: chart assertions, the clock, the chart expirer and the pusher
\* ------------------------------------------------------------------------
MaxChartPayloads == 2
\* the clock moves in steps of TtlTickMs; payloads arrive during the first
\* ChartInputWindowMs, and the clock runs on for more than a TTL after that:
\* when it stops every chart entry has expired, and nothing the bridge does
\* from then on depends on the time
TtlTickMs == 15000
ChartInputWindowMs == 15000
ChartClockLimitMs == 90000

\* {symbol, state: HOT} on the chart channel, or {symbol, state} on the
\* evaluator channel
ChartInputs ==
    \/ \E sym \in Symbols :
          ApplySourcePayload(SRC_CHART, [form |-> "single",
                                         items |-> <<[symbol |-> sym, state |-> "HOT"]>>])
    \/ \E it \in [symbol : Symbols, state : VALID_STATES] :
          ApplySourcePayload(SRC_EVAL, [form |-> "single", items |-> <<it>>])

offBridge == <<histVars, clientVars, memVars>>

ChartStart == \E rows \in BootRows, outcome \in PublishOutcomes :
    Start(rows, outcome) /\ UNCHANGED offBridge
ChartPayload ==
    /\ payloads_in < MaxChartPayloads
    /\ now <= StartMs + ChartInputWindowMs
    /\ ChartInputs
    /\ payloads_in' = payloads_in + 1
    /\ UNCHANGED <<upd, clientVars, memVars>>
PusherWakeStep == PusherWake /\ UNCHANGED offBridge
PusherClearStep == PusherClear /\ UNCHANGED offBridge
PusherRecomputeStep == \E outcome \in PublishOutcomes :
    PusherRecompute(outcome) /\ UNCHANGED offBridge
ChartTtlStep == ChartTtlLoop /\ UNCHANGED offBridge
ClockStep == Tick(TtlTickMs, ChartClockLimitMs) /\ UNCHANGED offBridge
SleepTickStep == SleepTick /\ UNCHANGED offBridge

NextChart ==
    \/ ChartStart
    \/ ChartPayload
    \/ PusherWakeStep
    \/ PusherClearStep
    \/ PusherRecomputeStep
    \/ ChartTtlStep
    \/ ClockStep
    \/ SleepTickStep

\* time passes, and the pusher and the expirer threads keep running; that a
\* payload arrives is up to the outside
ChartFairness ==
    /\ WF_vars(PusherWakeStep)
    /\ WF_vars(PusherClearStep)
    /\ WF_vars(PusherRecomputeStep)
    /\ WF_vars(ChartTtlStep)
    /\ WF_vars(ClockStep)
    /\ WF_vars(SleepTickStep)

SpecChart == Init /\ [][NextChart]_vars /\ ChartFairness

\* only the chart source asserts sym, as HOT
ChartOnlyHot(sym) ==
    /\ state_by_source[SRC_CHART][sym] = "HOT"
    /\ \A src \in Sources \ {SRC_CHART} : state_by_source[src][sym] = None

\* sym is in neither chart map nor chart_ts, and in neither of the replace
\* messages last published
ExpiredAndWithdrawn(sym) ==
    /\ state_by_source[SRC_CHART][sym] = None
    /\ chart_ts[sym] = NoTs
    /\ ctl_ticks.n > 0 => \A i \in DOMAIN ctl_ticks.last.symbols :
                                    ctl_ticks.last.symbols[i] # sym
    /\ ctl_quotes.n > 0 => \A i \in DOMAIN ctl_quotes.last.symbols :
                                     ctl_quotes.last.symbols[i] # sym

\* C26: when chart asserts (S, HOT), no other source asserts S and no refresh
\* arrives, then once the TTL has elapsed the expirer removes S from the
\* chart map and from chart_ts and signals a push, and the bridge eventually
\* publishes replace messages whose symbol lists do not contain S.
C26_ChartExpiry ==
    \A sym \in Symbols :
        ChartOnlyHot(sym) ~> (ExpiredAndWithdrawn(sym)
                              \/ \E src \in Sources \ {SRC_CHART} :
                                     state_by_source[src][sym] # None)

\* ------------------------------------------------------------------------
\* The dirty flag and the values of the source maps
\* ------------------------------------------------------------------------
\* C27: every operation of the running bridge that changes a source map (a
\* payload on a Redis source channel, a DB notification in single, batch or
\* bare-symbol form, a batch with a malformed later item included, and
\* chart expiry) sets the push event, so that a recompute follows.
C27_DirtyFlag ==
    [][(Running /\ state_by_source' # state_by_source) => push_evt']_vars

\* C28: every value stored in the db, evaluator, override and chart maps is
\* one of COLD, WARM, HOT, and an inbound item with an empty symbol changes
\* no map: no map ever holds the key "".
C28_SourceStateValid ==
    /\ \A src \in Sources, k \in Keys : state_by_source[src][k] \in VALID_STATES \cup {None}
    /\ \A src \in Sources : state_by_source[src][""] = None

\* ------------------------------------------------------------------------
\* Subscription calls: the frames against the sets
\* ------------------------------------------------------------------------
\* the set of `channel` after the upstream has applied frames i.. to S
RECURSIVE ApplyFrames(_, _, _, _)
ApplyFrames(S, frames, i, channel) ==
    IF i > Len(frames) THEN S
    ELSE LET f == frames[i]
             syms == {f.params[j][2] : j \in {h \in DOMAIN f.params : f.params[h][1] = channel}}
         IN  ApplyFrames(CASE f.action = "subscribe" -> S \cup syms
                           [] f.action = "unsubscribe" -> S \ syms
                           [] OTHER -> S,
                         frames, i + 1, channel)

\* C29: each call runs under the client's lock, so its set mutation and its
\* frames are one step; the frames enter the send queue in the order of the
\* set mutations, and (the queue having had room for them) applying the
\* frames a call enqueued, in order, to the set held before the call yields
\* the set held after it.
C29_AtomicMutation ==
    (last_call.n > 0 /\ last_call.took = last_call.due) =>
        ApplyFrames(last_call.before, LastN(_sendq, last_call.took), 1, last_call.channel)
            = _subs[last_call.channel]

\* frame is the one frame of `action` that lists each symbol of S once
ListsOnce(frame, action, channel, S) ==
    /\ frame.action = action
    /\ Len(frame.params) = Cardinality(S)
    /\ {frame.params[j] : j \in DOMAIN frame.params} = {<<channel, sym>> : sym \in S}

\* C30: subscribe_many adds the symbols to the set and enqueues exactly one
\* subscribe frame that lists each symbol not already in the set exactly
\* once, and nothing when no symbol is new; unsubscribe_many does the same
\* with the symbols that were in the set (the queue having room).
C30_SubscribeDelta ==
    /\ last_call.op = "subscribe" =>
          LET new == last_call.target \ last_call.before IN
          /\ _subs[last_call.channel] = last_call.before \cup last_call.target
          /\ last_call.due = (IF new = {} THEN 0 ELSE 1)
          /\ last_call.took = 1 =>
                ListsOnce(_sendq[Len(_sendq)], "subscribe", last_call.channel, new)
    /\ last_call.op = "unsubscribe" =>
          LET rem == last_call.target \cap last_call.before IN
          /\ _subs[last_call.channel] = last_call.before \ last_call.target
          /\ last_call.due = (IF rem = {} THEN 0 ELSE 1)
          /\ last_call.took = 1 =>
                ListsOnce(_sendq[Len(_sendq)], "unsubscribe", last_call.channel, rem)

\* ------------------------------------------------------------------------
\* SpecDispatch: register_handler and _on_message
\* ------------------------------------------------------------------------
MaxHandlers == 3
MaxFrames == 2
MaxFrameLen == 2
\* a handler that returns and one that raises
EventHandlers == {[id |-> 1, raises |-> FALSE], [id |-> 2, raises |-> TRUE]}
\* the elements of a list frame: a trade, a quote, a status event other than
\* the authentication success, and an element that is not a JSON object
NotObject == [ev |-> "<notobject>"]
FrameEvents == {[ev |-> "T"], [ev |-> "Q"], [ev |-> "status"], NotObject}
Frames == UNION {[1..n -> FrameEvents] : n \in 1..MaxFrameLen}

RegisteredCount == Len(_handlers["T"]) + Len(_handlers["Q"]) + Len(_handlers["*"])

\* register_handler(ev, handler)
register_handler(tag, handler) ==
    /\ RegisteredCount < MaxHandlers
    /\ _handlers' = [_handlers EXCEPT ![tag] = Append(@, handler)]
    /\ UNCHANGED dispatch

\* the calls of one handler list for event i, each inside its own try/except
CallsOf(handlers, i) == [j \in 1..Len(handlers) |-> <<i, handlers[j].id>>]

\* the loop `for ev in events` of _on_message from element i on: ev.get on an
\* element that is not an object raises out of the loop; a status event is
\* passed over; any other event goes to the handlers of its tag and then to
\* the wildcard handlers
RECURSIVE DispatchFrom(_, _, _)
DispatchFrom(frame, i, log) ==
    IF i > Len(frame) THEN [log |-> log, raised |-> FALSE]
    ELSE IF frame[i] = NotObject THEN [log |-> log, raised |-> TRUE]
    ELSE IF frame[i].ev = "status" THEN DispatchFrom(frame, i + 1, log)
    ELSE DispatchFrom(frame, i + 1,
             log \o CallsOf(_handlers[frame[i].ev], i) \o CallsOf(_handlers["*"], i))

\* _on_message(ws, message) with a JSON list
_on_message(frame) ==
    /\ dispatch.n < MaxFrames
    /\ LET r == DispatchFrom(frame, 1, <<>>) IN
       dispatch' = [n |-> dispatch.n + 1, frame |-> frame, log |-> r.log, raised |-> r.raised]
    /\ UNCHANGED _handlers

offDisp == <<bridgeVars, histVars, clientVars, ringVars, regVars, busVars, ingVars, loopVars, lifeVars, raceVars,
    lockVars>>

NextDispatch ==
    \/ \E tag \in EventTags, handler \in EventHandlers :
          register_handler(tag, handler) /\ UNCHANGED offDisp
    \/ \E frame \in Frames : _on_message(frame) /\ UNCHANGED offDisp

SpecDispatch == Init /\ [][NextDispatch]_vars

\* the calls the claim asks for: for every event of the frame, the handlers
\* of its tag in registration order, then the wildcard handlers
RECURSIVE ExpectedCalls(_, _)
ExpectedCalls(frame, i) ==
    IF i > Len(frame) THEN <<>>
    ELSE (IF frame[i] = NotObject \/ frame[i].ev = "status" THEN <<>>
          ELSE CallsOf(_handlers[frame[i].ev], i) \o CallsOf(_handlers["*"], i))
         \o ExpectedCalls(frame, i + 1)

\* C31: for each event of an inbound frame the handlers registered for its
\* tag run in registration order, then the wildcard handlers; a handler that
\* raises, or a malformed element of a list frame, does not keep the other
\* handlers and the other events of the frame from being dispatched.
C31_DispatchIsolation ==
    dispatch.n > 0 => dispatch.log = ExpectedCalls(dispatch.frame, 1)

\* ------------------------------------------------------------------------
\* SpecLife: start(), stop() and the runner threads of the WS client
\* ------------------------------------------------------------------------
MaxStops == 2
reconnect == TRUE

HasFree == \E r \in Runners : thr[r].pc = "none"
FreeRunner == CHOOSE r \in Runners :
    thr[r].pc = "none" /\ \A q \in Runners : q < r => thr[q].pc # "none"

\* _spawn_ws from thread table t: a new WebSocketApp and a new runner thread
SpawnIn(t) == [t EXCEPT ![FreeRunner] = [pc |-> "spawned", late |-> FALSE]]

\* start(): the stop flag is cleared and a runner spawned; called first, or
\* again after a stop() has returned
ClientStart ==
    /\ stop_pc.at = "idle"
    /\ life.starts = 0 \/ ws_stop_evt
    /\ HasFree
    /\ ws_stop_evt' = FALSE
    /\ thr' = SpawnIn(thr)
    /\ _runner' = FreeRunner
    /\ life' = [life EXCEPT !.starts = @ + 1]
    /\ UNCHANGED <<stop_pc, clientVars>>

\* stop() up to the join: the flag is set, _connected_evt cleared, and
\* self._wsapp.close() ends run_forever of the current app if its socket is open
ClientStop ==
    /\ stop_pc.at = "idle"
    /\ life.starts > 0
    /\ ~ws_stop_evt
    /\ life.stops < MaxStops
    /\ ws_stop_evt' = TRUE
    /\ _connected_evt' = FALSE
    /\ thr' = IF thr[_runner].pc = "open" THEN [thr EXCEPT ![_runner].pc = "closed"] ELSE thr
    /\ stop_pc' = [at |-> "joining", joined |-> _runner]
    /\ life' = [life EXCEPT !.stops = @ + 1]
    /\ UNCHANGED <<_runner, _subs, _sendq, _connect_attempts, backoff, runner_pc, sender_pc,
                   sender_msg, auth_events, wsHistVars, sendHistVars>>

\* self._runner.join(timeout): the thread has ended, or the deadline passes
\* with the thread still inside run_forever
StopReturn ==
    /\ stop_pc.at = "joining"
    /\ thr[stop_pc.joined].pc \in {"done", "connecting", "open"}
    /\ stop_pc' = [at |-> "idle", joined |-> 0]
    /\ UNCHANGED <<thr, _runner, ws_stop_evt, life, clientVars>>

\* _run_forever, its first two lines
ThreadBegin(r) ==
    /\ thr[r].pc = "spawned"
    /\ thr' = [thr EXCEPT ![r].pc = "loop"]
    /\ _connect_attempts' = 0
    /\ UNCHANGED <<_runner, ws_stop_evt, stop_pc, life, _subs, _sendq, _connected_evt, backoff,
                   runner_pc, sender_pc, sender_msg, auth_events, wsHistVars, sendHistVars>>

\* `while not self._stop_evt.is_set()`, then up to the call of run_forever
ThreadCheck(r) ==
    /\ thr[r].pc = "loop"
    /\ thr' = [thr EXCEPT ![r].pc = IF ws_stop_evt THEN "done" ELSE "connecting"]
    /\ _connect_attempts' = IF ws_stop_evt THEN _connect_attempts ELSE _connect_attempts + 1
    /\ UNCHANGED <<_runner, ws_stop_evt, stop_pc, life, _subs, _sendq, _connected_evt, backoff,
                   runner_pc, sender_pc, sender_msg, auth_events, wsHistVars, sendHistVars>>

\* run_forever connects and the socket opens: _on_open
ThreadOpen(r) ==
    /\ thr[r].pc = "connecting"
    /\ thr' = [thr EXCEPT ![r] = [pc |-> "open", late |-> ws_stop_evt]]
    /\ _connected_evt' = TRUE
    /\ _sendq' = _enqueue(_sendq, AuthFrame)
    /\ UNCHANGED <<_runner, ws_stop_evt, stop_pc, life, _subs, _connect_attempts, backoff,
                   runner_pc, sender_pc, sender_msg, auth_events, wsHistVars, sendHistVars>>

\* run_forever returns or raises without a socket having opened
ThreadFail(r) ==
    /\ thr[r].pc = "connecting"
    /\ thr' = [thr EXCEPT ![r].pc = "closed"]
    /\ UNCHANGED <<_runner, ws_stop_evt, stop_pc, life, clientVars>>

\* the upstream closes the open socket: _on_close, run_forever returns
ThreadClose(r) ==
    /\ thr[r].pc = "open"
    /\ thr' = [thr EXCEPT ![r].pc = "closed"]
    /\ _connected_evt' = FALSE
    /\ UNCHANGED <<_runner, ws_stop_evt, stop_pc, life, _subs, _sendq, _connect_attempts, backoff,
                   runner_pc, sender_pc, sender_msg, auth_events, wsHistVars, sendHistVars>>

\* after run_forever: self._connected_evt.clear(), then the loop is left
\* when the stop flag is set or reconnect is off, else the backoff sleep begins
ThreadAfter(r) ==
    /\ thr[r].pc = "closed"
    /\ _connected_evt' = FALSE
    /\ thr' = [thr EXCEPT ![r].pc = IF ws_stop_evt \/ ~reconnect THEN "done" ELSE "sleeping"]
    /\ UNCHANGED <<_runner, ws_stop_evt, stop_pc, life, _subs, _sendq, _connect_attempts, backoff,
                   runner_pc, sender_pc, sender_msg, auth_events, wsHistVars, sendHistVars>>

\* the sleep is over: self._spawn_ws(); return
ThreadHandoff(r) ==
    /\ thr[r].pc = "sleeping"
    /\ HasFree
    /\ thr' = [SpawnIn(thr) EXCEPT ![r].pc = "done"]
    /\ _runner' = FreeRunner
    /\ UNCHANGED <<ws_stop_evt, stop_pc, life, clientVars>>

offLife == <<bridgeVars, histVars, ringVars, regVars, busVars, ingVars, loopVars, dispVars, raceVars,
    lockVars>>

ClientStartStep == ClientStart /\ UNCHANGED offLife
ClientStopStep == ClientStop /\ UNCHANGED offLife
StopReturnStep == StopReturn /\ UNCHANGED offLife
ThreadBeginStep(r) == ThreadBegin(r) /\ UNCHANGED offLife
ThreadCheckStep(r) == ThreadCheck(r) /\ UNCHANGED offLife
ThreadOpenStep(r) == ThreadOpen(r) /\ UNCHANGED offLife
ThreadFailStep(r) == ThreadFail(r) /\ UNCHANGED offLife
ThreadCloseStep(r) == ThreadClose(r) /\ UNCHANGED offLife
ThreadAfterStep(r) == ThreadAfter(r) /\ UNCHANGED offLife
ThreadHandoffStep(r) == ThreadHandoff(r) /\ UNCHANGED offLife

NextLife ==
    \/ ClientStartStep
    \/ ClientStopStep
    \/ StopReturnStep
    \/ \E r \in Runners : ThreadBeginStep(r)
    \/ \E r \in Runners : ThreadCheckStep(r)
    \/ \E r \in Runners : ThreadOpenStep(r)
    \/ \E r \in Runners : ThreadFailStep(r)
    \/ \E r \in Runners : ThreadCloseStep(r)
    \/ \E r \in Runners : ThreadAfterStep(r)
    \/ \E r \in Runners : ThreadHandoffStep(r)

\* every thread keeps running and every connection attempt ends, one way or
\* the other; when the upstream closes a socket, and when start() and stop()
\* are called, is up to the outside
LifeFairness ==
    /\ WF_vars(StopReturnStep)
    /\ \A r \in Runners :
          /\ WF_vars(ThreadBeginStep(r))
          /\ WF_vars(ThreadCheckStep(r))
          /\ WF_vars(ThreadOpenStep(r) \/ ThreadFailStep(r))
          /\ WF_vars(ThreadAfterStep(r))
          /\ WF_vars(ThreadHandoffStep(r))

SpecLife == Init /\ [][NextLife]_vars /\ LifeFairness

\* the runner threads inside run_forever, connecting or connected
InRunForever == {r \in Runners : thr[r].pc \in {"connecting", "open"}}

\* C32: at every moment the client has at most one runner thread connecting
\* or connected, across start, disconnect-and-reconnect, stop and restart.
C32_SingleSocket == Cardinality(InRunForever) <= 1

\* no socket is open
NoOpenSocket == \A r \in Runners : thr[r].pc # "open"

\* C34: after stop() the client never opens a new connection and eventually
\* has no open socket (until start() is called again), however stop()
\* interleaves with the runner thread: a runner sleeping in backoff, or one
\* that has passed its stop-flag check and has not yet started the connection.
C34_WsStop ==
    /\ [](\A r \in Runners : ~thr[r].late)
    /\ ws_stop_evt ~> (NoOpenSocket \/ ~ws_stop_evt)

\* ------------------------------------------------------------------------
\* Authentication per connection
\* ------------------------------------------------------------------------
\* the auth frames written to the socket on the connection opened at wire[i]
AuthsOn(i) ==
    {j \in DOMAIN wire : /\ j > i
                         /\ wire[j].action = "auth"
                         /\ \A k \in (i + 1) .. (j - 1) : wire[k] # OpenMark}

\* C33: on each connection one auth frame is sent, never a second one,
\* however earlier connections ended, also when an earlier connection closed
\* before its own auth frame had left the send queue.
C33_OneAuthPerConnection ==
    \A i \in DOMAIN wire : wire[i] = OpenMark => Cardinality(AuthsOn(i)) <= 1

\* ------------------------------------------------------------------------
\* Convergence of the upstream
\* ------------------------------------------------------------------------
\* where the present connection opened in the record of the socket
LastOpen ==
    IF \E i \in DOMAIN wire : wire[i] = OpenMark
    THEN CHOOSE i \in DOMAIN wire : wire[i] = OpenMark /\ \A k \in (i + 1) .. Len(wire) : wire[k] # OpenMark
    ELSE 0

\* the frames the upstream received on the present connection
ConnFrames == SubSeq(wire, LastOpen + 1, Len(wire))

\* those it did not ignore: the ones after the first auth frame
AfterAuth ==
    IF \E i \in DOMAIN ConnFrames : ConnFrames[i].action = "auth"
    THEN LET first == CHOOSE i \in DOMAIN ConnFrames :
                          /\ ConnFrames[i].action = "auth"
                          /\ \A k \in 1 .. (i - 1) : ConnFrames[k].action # "auth"
         IN  SubSeq(ConnFrames, first + 1, Len(ConnFrames))
    ELSE <<>>

\* the upstream's set of a channel: empty when the connection opens, the
\* subscribe and unsubscribe frames applied in the order of their arrival
Upstream(channel) == ApplyFrames({}, AfterAuth, 1, channel)

\* connected, authenticated, nothing left to send
Settled ==
    /\ _connected_evt
    /\ conn.authed
    /\ _sendq = <<>>
    /\ sender_pc = "get"

\* SpecConverge: SpecSend with two calls, each about the one symbol
MaxConvCalls == 2
ConvSymLists == {<<"AAPL">>}

NextConverge ==
    \/ WsStart /\ UNCHANGED <<offClient, sendHistVars>>
    \/ SubscribeCall(MaxConvCalls, ConvSymLists) /\ LogEnqueue /\ CallOverflow
          /\ UNCHANGED <<offClient, wire>>
    \/ UnsubscribeCall(MaxConvCalls, ConvSymLists) /\ LogEnqueue /\ CallOverflow
          /\ UNCHANGED <<offClient, wire>>
    \/ ReplaceCall(MaxConvCalls, ConvSymLists) /\ LogEnqueue /\ CallOverflow
          /\ UNCHANGED <<offClient, wire>>
    \/ RunnerBegin /\ UNCHANGED <<offClient, sendHistVars>>
    \/ RunnerAttempt /\ UNCHANGED <<offClient, sendHistVars>>
    \/ _on_open /\ LogEnqueue /\ PutOverflow /\ wire' = Append(wire, OpenMark)
          /\ UNCHANGED offClient
    \/ ConnectFail /\ UNCHANGED <<offClient, sendHistVars>>
    \/ _on_close /\ UNCHANGED <<offClient, sendHistVars>>
    \/ OnAuthSuccess /\ LogEnqueue /\ ResubOverflow /\ UNCHANGED <<offClient, wire>>
    \/ RunnerSleep /\ UNCHANGED <<offClient, sendHistVars>>
    \/ RunnerHandoff /\ UNCHANGED <<offClient, sendHistVars>>
    \/ SenderGet /\ UNCHANGED <<offClient, sendHistVars>>
    \/ SenderSend /\ wire' = Append(wire, sender_msg) /\ UNCHANGED <<offClient, enq_log, overflow>>
    \/ SenderRequeue /\ PutOverflow /\ UNCHANGED <<offClient, enq_log, wire>>

SpecConverge == Init /\ [][NextConverge]_vars

\* C38: for any sequence of subscribe, unsubscribe, replace, disconnect and
\* reconnect with no send-queue overflow, whenever the client is connected
\* and authenticated and its send queue is empty, the upstream's set of each
\* channel equals the set the client holds.
C38_UpstreamConvergence ==
    (Settled /\ ~overflow) => \A channel \in Channels : Upstream(channel) = _subs[channel]

\* ------------------------------------------------------------------------
\* SpecRace: the chart listener and the expirer, one dict operation at a
\* time (the bridge holds no lock around its maps)
\* ------------------------------------------------------------------------
MaxRacePayloads == 2
TtlMs == CHART_TTL_SEC * 1000

\* _apply_source_payload, source chart, item {symbol, state}:
\* self.chart_ts[sym] = now
ChartSetTs(sym, st) ==
    /\ Running
    /\ cl_pc.at = "idle"
    /\ chart_ts' = [chart_ts EXCEPT ![sym] = now]
    /\ cl_pc' = [at |-> "set_map", sym |-> sym, st |-> st]
    /\ race' = [race EXCEPT !.last_upd[sym] = now]
    /\ UNCHANGED <<state_by_source, push_evt, metrics, ex_pc>>

\* self.state_by_source[SRC_CHART][sym] = st
ChartSetMap ==
    /\ cl_pc.at = "set_map"
    /\ state_by_source' = [state_by_source EXCEPT ![SRC_CHART][cl_pc.sym] = cl_pc.st]
    /\ cl_pc' = [cl_pc EXCEPT !.at = "push"]
    /\ UNCHANGED <<chart_ts, push_evt, metrics, ex_pc, race>>

\* self._schedule_push(), and updates_in += 1 back in _redis_in_loop
ChartSchedule ==
    /\ cl_pc.at = "push"
    /\ push_evt' = TRUE
    /\ metrics' = [metrics EXCEPT !.updates_in = @ + 1]
    /\ cl_pc' = [at |-> "idle", sym |-> "", st |-> None]
    /\ UNCHANGED <<state_by_source, chart_ts, ex_pc, race>>

\* _chart_ttl_loop: the list `expired` is built from the timestamps as they
\* are now (an empty list leads to the sleep and the next scan)
ExpirerScan ==
    /\ Running
    /\ ex_pc.at = "scan"
    /\ LET expired == {k \in Keys : chart_ts[k] # NoTs /\ now - chart_ts[k] > TtlMs}
       IN  /\ expired # {}
           /\ ex_pc' = [at |-> "pop_ts", expired |-> expired, cur |-> "",
                        n |-> Cardinality(expired)]
    /\ UNCHANGED <<state_by_source, chart_ts, push_evt, metrics, cl_pc, race>>

\* the chart update of sym that is the latest was made within the TTL
UpdatedWithinTtl(sym) ==
    race.last_upd[sym] # NoTs /\ now - race.last_upd[sym] <= TtlMs

\* self.chart_ts.pop(s, None) for the next s of the list
ExpirerPopTs(s) ==
    /\ ex_pc.at = "pop_ts"
    /\ s \in ex_pc.expired
    /\ chart_ts' = [chart_ts EXCEPT ![s] = NoTs]
    /\ ex_pc' = [ex_pc EXCEPT !.at = "pop_map", !.cur = s]
    /\ race' = [race EXCEPT !.removed_fresh =
                    @ \/ (chart_ts[s] # NoTs /\ UpdatedWithinTtl(s))]
    /\ UNCHANGED <<state_by_source, push_evt, metrics, cl_pc>>

\* self.state_by_source[SRC_CHART].pop(s, None)
ExpirerPopMap ==
    /\ ex_pc.at = "pop_map"
    /\ state_by_source' = [state_by_source EXCEPT ![SRC_CHART][ex_pc.cur] = None]
    /\ ex_pc' = [ex_pc EXCEPT !.at = IF ex_pc.expired = {ex_pc.cur} THEN "signal" ELSE "pop_ts",
                              !.expired = @ \ {ex_pc.cur},
                              !.cur = ""]
    /\ race' = [race EXCEPT !.removed_fresh =
                    @ \/ (state_by_source[SRC_CHART][ex_pc.cur] # None
                          /\ UpdatedWithinTtl(ex_pc.cur))]
    /\ UNCHANGED <<chart_ts, push_evt, metrics, cl_pc>>

\* chart_expired += len(expired); self._schedule_push(); time.sleep(1.0)
ExpirerSignal ==
    /\ ex_pc.at = "signal"
    /\ metrics' = [metrics EXCEPT !.chart_expired = @ + ex_pc.n]
    /\ push_evt' = TRUE
    /\ ex_pc' = [at |-> "scan", expired |-> {}, cur |-> "", n |-> 0]
    /\ UNCHANGED <<state_by_source, chart_ts, cl_pc, race>>

\* what the two threads leave alone
offRace == <<eff_warm, eff_hot, pusher_pc, sleep_until, ctl_ticks, ctl_quotes, now, eff_query,
             pushed, histVars, clientVars, ringVars, regVars, busVars, ingVars, loopVars,
             dispVars, lifeVars, lockVars>>

NextRace ==
    \/ \E rows \in BootRows, outcome \in PublishOutcomes :
          Start(rows, outcome) /\ UNCHANGED <<histVars, clientVars, memVars>>
    \/ \E sym \in Symbols, st \in {"WARM", "HOT"} :
          /\ payloads_in < MaxRacePayloads
          /\ ChartSetTs(sym, st)
          /\ payloads_in' = payloads_in + 1
          /\ UNCHANGED <<eff_warm, eff_hot, pusher_pc, sleep_until, ctl_ticks, ctl_quotes, now,
                         eff_query, pushed, upd, clientVars, ringVars, regVars, busVars,
                         ingVars, loopVars, dispVars, lifeVars, lockVars>>
    \/ ChartSetMap /\ UNCHANGED offRace
    \/ ChartSchedule /\ UNCHANGED offRace
    \/ ExpirerScan /\ UNCHANGED offRace
    \/ \E s \in Symbols : ExpirerPopTs(s) /\ UNCHANGED offRace
    \/ ExpirerPopMap /\ UNCHANGED offRace
    \/ ExpirerSignal /\ UNCHANGED offRace
    \/ Tick(TtlTickMs, ChartClockLimitMs) /\ UNCHANGED <<histVars, clientVars, memVars>>

SpecRace == Init /\ [][NextRace]_vars

\* chart map and chart_ts hold the same keys
SameChartKeys ==
    \A k \in Keys : (chart_ts[k] = NoTs) <=> (state_by_source[SRC_CHART][k] = None)

\* C35: under every interleaving of the chart listener and the expirer loop
\* the expirer never removes a chart entry whose latest update is within the
\* TTL, and when both have finished what they were doing the chart map and
\* chart_ts hold the same key set.
C35_RefreshVsExpirer ==
    /\ ~race.removed_fresh
    /\ (Running /\ cl_pc.at = "idle" /\ ex_pc.at = "scan") => SameChartKeys

====
